---------------------------- MODULE Spec2Model ----------------------------
(***************************************************************************)
(* Model of the order-progress derivation of the Tesla order status app    *)
(* (src/app/main.py, src/app/utils.py).                                     *)
(*                                                                         *)
(* JSON values are tagged records; Python text is a sequence of one-       *)
(* character strings so that parsing, stripping and searching are          *)
(* computed character by character, as the code does.                      *)
(***************************************************************************)
EXTENDS Integers, Sequences, FiniteSets, TLC

\* ------------------------------------------------------------------------
\* JSON-shaped values
\* ------------------------------------------------------------------------
JNull == [t |-> "null"]
JStr(s) == [t |-> "str", s |-> s]
JNum(n) == [t |-> "num", n |-> n]
JList(l) == [t |-> "list", l |-> l]
JMap(f) == [t |-> "map", m |-> f]
JBool(b) == [t |-> "bool", b |-> b]
\* a key that the mapping does not hold
Absent == [t |-> "absent"]
EmptyMap == JMap(<<>>)

\* a Python dict literal {k1: v1, ...}, given as <<k1, v1>>, ...; an entry
\* whose value is Absent is left out
Obj(entries) ==
    LET P == {i \in DOMAIN entries : entries[i][2] # Absent}
    IN JMap([k \in {entries[i][1] : i \in P} |->
                 entries[CHOOSE i \in P : entries[i][1] = k][2]])

\* Python truth value of an object (bool(x))
Truthy(v) ==
    CASE v.t = "null" -> FALSE
      [] v.t = "str" -> Len(v.s) > 0
      [] v.t = "num" -> v.n # 0
      [] v.t = "bool" -> v.b
      [] v.t = "list" -> Len(v.l) > 0
      [] v.t = "map" -> DOMAIN v.m # {}
      [] OTHER -> FALSE

\* a or b
Or(a, b) == IF Truthy(a) THEN a ELSE b

\* only dict has .get; on every other JSON type (None included) the
\* attribute access raises AttributeError
HasGet(v) == v.t = "map"

\* d.get(k, default); on a receiver without .get the value is irrelevant,
\* the caller records the raise
GetD(d, k, default) ==
    IF HasGet(d) /\ k \in DOMAIN d.m THEN d.m[k] ELSE default

\* d.get(k)
Get(d, k) == GetD(d, k, JNull)

\* value in (None, "")
IsNoneOrEmpty(v) == v.t = "null" \/ (v.t = "str" /\ v.s = <<>>)

\* ------------------------------------------------------------------------
\* Text
\* ------------------------------------------------------------------------
DigitChars == <<"0", "1", "2", "3", "4", "5", "6", "7", "8", "9">>
LowerChars == <<"a", "b", "c", "d", "e", "f", "g", "h", "i", "j", "k", "l", "m",
                "n", "o", "p", "q", "r", "s", "t", "u", "v", "w", "x", "y", "z">>
UpperChars == <<"A", "B", "C", "D", "E", "F", "G", "H", "I", "J", "K", "L", "M",
                "N", "O", "P", "Q", "R", "S", "T", "U", "V", "W", "X", "Y", "Z">>
Whitespace == {" ", "\t", "\n"}

IndexOf(c, alphabet) ==
    IF \E i \in DOMAIN alphabet : alphabet[i] = c
    THEN CHOOSE i \in DOMAIN alphabet : alphabet[i] = c
    ELSE 0

IsDigit(c) == IndexOf(c, DigitChars) # 0
DigitVal(c) == IndexOf(c, DigitChars) - 1
IsUpperAlnum(c) == IsDigit(c) \/ IndexOf(c, UpperChars) # 0

\* str.upper()
UpperChar(c) ==
    IF IndexOf(c, LowerChars) # 0 THEN UpperChars[IndexOf(c, LowerChars)] ELSE c
Upper(s) == [i \in DOMAIN s |-> UpperChar(s[i])]

\* str.lower()
Lower(s) ==
    [i \in DOMAIN s |-> IF IndexOf(s[i], UpperChars) # 0
                        THEN LowerChars[IndexOf(s[i], UpperChars)] ELSE s[i]]

IsLetter(c) == IndexOf(c, LowerChars) # 0 \/ IndexOf(c, UpperChars) # 0

\* str.title(): a letter that follows a letter is lowered, any other letter
\* is raised
Title(s) ==
    [i \in DOMAIN s |->
        IF i > 1 /\ IsLetter(s[i - 1]) THEN Lower(<<s[i]>>)[1]
        ELSE UpperChar(s[i])]

\* str.strip() with the characters of `chars`
StripChars(s, chars) ==
    IF \A i \in DOMAIN s : s[i] \in chars
    THEN <<>>
    ELSE LET lo == CHOOSE i \in DOMAIN s :
                       s[i] \notin chars /\ \A j \in 1..(i - 1) : s[j] \in chars
             hi == CHOOSE i \in DOMAIN s :
                       s[i] \notin chars /\ \A j \in (i + 1)..Len(s) : s[j] \in chars
         IN SubSeq(s, lo, hi)

\* str.strip()
Strip(s) == StripChars(s, Whitespace)

\* needle in haystack
Contains(haystack, needle) ==
    \E i \in 1..(Len(haystack) - Len(needle) + 1) :
        SubSeq(haystack, i, i + Len(needle) - 1) = needle

\* s.endswith(suffix)
EndsWith(s, suffix) ==
    Len(s) >= Len(suffix) /\ SubSeq(s, Len(s) - Len(suffix) + 1, Len(s)) = suffix

\* decimal digits of a natural number, at least `width` of them (f"{n:0wd}")
RECURSIVE NatDigits(_, _)
NatDigits(n, width) ==
    IF n < 10 /\ width <= 1
    THEN <<DigitChars[n + 1]>>
    ELSE Append(NatDigits(n \div 10, width - 1), DigitChars[(n % 10) + 1])

\* value of a run of decimal digits
RECURSIVE DigitsValue(_)
DigitsValue(ds) ==
    IF ds = <<>> THEN 0
    ELSE 10 * DigitsValue(SubSeq(ds, 1, Len(ds) - 1)) + DigitVal(ds[Len(ds)])

AllDigits(s) == \A i \in DOMAIN s : IsDigit(s[i])

\* sep.join(tokens)
RECURSIVE Join(_, _)
Join(tokens, sep) ==
    IF tokens = <<>> THEN <<>>
    ELSE IF Len(tokens) = 1 THEN tokens[1]
    ELSE tokens[1] \o sep \o Join(Tail(tokens), sep)

\* str(value); a list shows the repr of its items, a str item in single
\* quotes; a dict is rendered here only in its empty form
RECURSIVE PyStr(_)
PyStr(v) ==
    CASE v.t = "str" -> v.s
      [] v.t = "num" -> IF v.n < 0 THEN <<"-">> \o NatDigits(-v.n, 1)
                        ELSE NatDigits(v.n, 1)
      [] v.t = "null" -> <<"N", "o", "n", "e">>
      [] v.t = "bool" -> IF v.b THEN <<"T", "r", "u", "e">> ELSE <<"F", "a", "l", "s", "e">>
      [] v.t = "list" ->
             <<"[">> \o Join([i \in DOMAIN v.l |->
                                 IF v.l[i].t = "str" THEN <<"'">> \o v.l[i].s \o <<"'">>
                                 ELSE PyStr(v.l[i])], <<",", " ">>)
                    \o <<"]">>
      [] OTHER -> <<"{", "}">>

\* str.split(): the maximal runs of non-whitespace characters
RECURSIVE Split(_)
Split(s) ==
    LET t == Strip(s)
    IN IF t = <<>> THEN <<>>
       ELSE IF \A i \in DOMAIN t : t[i] \notin Whitespace THEN <<t>>
       ELSE LET cut == CHOOSE i \in DOMAIN t :
                           t[i] \in Whitespace /\ \A j \in 1..(i - 1) : t[j] \notin Whitespace
            IN <<SubSeq(t, 1, cut - 1)>> \o Split(SubSeq(t, cut + 1, Len(t)))

\* " ".join(tokens)
RECURSIVE JoinSpace(_)
JoinSpace(tokens) ==
    IF tokens = <<>> THEN <<>>
    ELSE IF Len(tokens) = 1 THEN tokens[1]
    ELSE tokens[1] \o <<" ">> \o JoinSpace(Tail(tokens))

\* text.replace(",", "")
RemoveChar(s, c) == SelectSeq(s, LAMBDA x : x # c)

\* ------------------------------------------------------------------------
\* Dates
\* ------------------------------------------------------------------------
MonthNames == << <<"J", "a", "n">>, <<"F", "e", "b">>, <<"M", "a", "r">>,
                 <<"A", "p", "r">>, <<"M", "a", "y">>, <<"J", "u", "n">>,
                 <<"J", "u", "l">>, <<"A", "u", "g">>, <<"S", "e", "p">>,
                 <<"O", "c", "t">>, <<"N", "o", "v">>, <<"D", "e", "c">> >>

IsLeap(y) == (y % 4 = 0 /\ y % 100 # 0) \/ y % 400 = 0

DaysInMonth(y, mo) ==
    IF mo = 2 THEN (IF IsLeap(y) THEN 29 ELSE 28)
    ELSE IF mo \in {4, 6, 9, 11} THEN 30 ELSE 31

NoDateTime == [ok |-> FALSE]

\* the 10 characters YYYY-MM-DD naming a real calendar day
IsIsoDate(s) ==
    /\ Len(s) = 10
    /\ AllDigits(SubSeq(s, 1, 4)) /\ s[5] = "-"
    /\ AllDigits(SubSeq(s, 6, 7)) /\ s[8] = "-"
    /\ AllDigits(SubSeq(s, 9, 10))
    /\ DigitsValue(SubSeq(s, 1, 4)) >= 1
    /\ DigitsValue(SubSeq(s, 6, 7)) \in 1..12
    /\ DigitsValue(SubSeq(s, 9, 10)) \in
           1..DaysInMonth(DigitsValue(SubSeq(s, 1, 4)), DigitsValue(SubSeq(s, 6, 7)))

\* HH:MM or HH:MM:SS
IsIsoTime(s) ==
    /\ Len(s) \in {5, 8}
    /\ AllDigits(SubSeq(s, 1, 2)) /\ s[3] = ":" /\ AllDigits(SubSeq(s, 4, 5))
    /\ DigitsValue(SubSeq(s, 1, 2)) \in 0..23
    /\ DigitsValue(SubSeq(s, 4, 5)) \in 0..59
    /\ Len(s) = 8 => /\ s[6] = ":" /\ AllDigits(SubSeq(s, 7, 8))
                     /\ DigitsValue(SubSeq(s, 7, 8)) \in 0..59

\* +HH:MM or -HH:MM
IsIsoOffset(s) ==
    /\ Len(s) = 6
    /\ s[1] \in {"+", "-"}
    /\ IsIsoTime(SubSeq(s, 2, 6))

\* datetime.fromisoformat(raw) on the forms YYYY-MM-DD, YYYY-MM-DD?HH:MM and
\* YYYY-MM-DD?HH:MM:SS, each with an optional +HH:MM offset; any other text
\* is a ValueError (ok = FALSE).  The fields are those written in the text:
\* an offset is kept beside them and does not shift them.
fromisoformat(raw) ==
    IF Len(raw) = 10
    THEN IF IsIsoDate(raw)
         THEN [ok |-> TRUE, y |-> DigitsValue(SubSeq(raw, 1, 4)),
               mo |-> DigitsValue(SubSeq(raw, 6, 7)),
               d |-> DigitsValue(SubSeq(raw, 9, 10)), h |-> 0, mi |-> 0,
               sec |-> 0, off |-> <<>>]
         ELSE NoDateTime
    ELSE IF Len(raw) \in {16, 19, 22, 25}
    THEN LET hasOffset == Len(raw) \in {22, 25}
             timeEnd == IF hasOffset THEN Len(raw) - 6 ELSE Len(raw)
             time == SubSeq(raw, 12, timeEnd)
         IN IF /\ IsIsoDate(SubSeq(raw, 1, 10))
               /\ IsIsoTime(time)
               /\ hasOffset => IsIsoOffset(SubSeq(raw, timeEnd + 1, Len(raw)))
            THEN [ok |-> TRUE, y |-> DigitsValue(SubSeq(raw, 1, 4)),
                  mo |-> DigitsValue(SubSeq(raw, 6, 7)),
                  d |-> DigitsValue(SubSeq(raw, 9, 10)),
                  h |-> DigitsValue(SubSeq(time, 1, 2)),
                  mi |-> DigitsValue(SubSeq(time, 4, 5)),
                  sec |-> IF Len(time) = 8
                          THEN DigitsValue(SubSeq(time, 7, 8)) ELSE 0,
                  off |-> IF hasOffset
                          THEN SubSeq(raw, timeEnd + 1, Len(raw)) ELSE <<>>]
            ELSE NoDateTime
    ELSE NoDateTime

\* a trailing Z is read as +00:00
ReplaceTrailingZ(raw) ==
    IF EndsWith(raw, <<"Z">>)
    THEN SubSeq(raw, 1, Len(raw) - 1) \o <<"+", "0", "0", ":", "0", "0">>
    ELSE raw

\* dt.strftime("%d %b %Y %H:%M")
strftime(dt) ==
    NatDigits(dt.d, 2) \o <<" ">> \o MonthNames[dt.mo] \o <<" ">>
        \o NatDigits(dt.y, 1) \o <<" ">>
        \o NatDigits(dt.h, 2) \o <<":">> \o NatDigits(dt.mi, 2)

\* dt.isoformat(): YYYY-MM-DDTHH:MM:SS and the offset of an aware value
isoformat(dt) ==
    NatDigits(dt.y, 4) \o <<"-">> \o NatDigits(dt.mo, 2) \o <<"-">>
        \o NatDigits(dt.d, 2) \o <<"T">> \o NatDigits(dt.h, 2) \o <<":">>
        \o NatDigits(dt.mi, 2) \o <<":">> \o NatDigits(dt.sec, 2) \o dt.off

\* date <= date
DateLeq(a, b) ==
    \/ a.y < b.y
    \/ a.y = b.y /\ a.mo < b.mo
    \/ a.y = b.y /\ a.mo = b.mo /\ a.d <= b.d

\* _format_timestamp: None for a falsy value, the formatted date-time when
\* the text parses, else the text itself
\* a parse failure turned into "no value"
FormattedOrRaw_NoneOnFailure(dt, value) ==
    IF dt.ok THEN JStr(strftime(dt)) ELSE JNull

\* (operators take the values computed once as parameters)
FormattedOrRaw(dt, value) ==
    IF dt.ok THEN JStr(strftime(dt)) ELSE JStr(PyStr(value))

_format_timestamp(value) ==
    IF ~Truthy(value) THEN JNull
    ELSE FormattedOrRaw(fromisoformat(ReplaceTrailingZ(PyStr(value))), value)

\* " ".join(tokens[:3]) if len(tokens) >= 3 else formatted
FirstThreeTokens(formatted, tokens) ==
    IF Len(tokens) >= 3 THEN JStr(JoinSpace(SubSeq(tokens, 1, 3))) ELSE formatted

DateOnlyOf(formatted) ==
    IF ~Truthy(formatted) THEN JNull
    ELSE FirstThreeTokens(formatted, Split(formatted.s))

\* _format_date_only: the first three tokens of the formatted timestamp
_format_date_only(value) == DateOnlyOf(_format_timestamp(value))

\* ------------------------------------------------------------------------
\* Helpers local to build_order_progress
\* ------------------------------------------------------------------------
\* format_timestamp (inner helper): _format_timestamp unless None or ""
format_timestamp(value) ==
    IF IsNoneOrEmpty(value) THEN JNull ELSE _format_timestamp(value)

\* format_date_only (inner helper)
format_date_only(value) ==
    IF IsNoneOrEmpty(value) THEN JNull ELSE _format_date_only(value)

\* scrub_text: the stripped text, None when nothing is left
scrub_text(value) ==
    IF IsNoneOrEmpty(value) THEN JNull
    ELSE IF Strip(PyStr(value)) = <<>> THEN JNull
    ELSE JStr(Strip(PyStr(value)))

NoNumber == [ok |-> FALSE]

\* last index of the run of digits that starts at i
DigitRunEnd(s, i) ==
    CHOOSE j \in i..Len(s) :
        /\ \A k \in i..j : IsDigit(s[k])
        /\ j = Len(s) \/ ~IsDigit(s[j + 1])

\* re.search(r"-?\d+(?:\.\d+)?", s): leftmost match, each part greedy
SearchNumber(s) ==
    LET starts == {i \in DOMAIN s :
                      \/ IsDigit(s[i])
                      \/ s[i] = "-" /\ i < Len(s) /\ IsDigit(s[i + 1])}
    IN IF starts = {} THEN NoNumber
       ELSE LET i == CHOOSE x \in starts : \A y \in starts : x <= y
                neg == s[i] = "-"
                ds == IF neg THEN i + 1 ELSE i
                de == DigitRunEnd(s, ds)
                hasFrac == /\ de + 2 <= Len(s)
                           /\ s[de + 1] = "."
                           /\ IsDigit(s[de + 2])
            IN [ok |-> TRUE, neg |-> neg,
                ip |-> DigitsValue(SubSeq(s, ds, de)),
                frac |-> IF hasFrac
                         THEN SubSeq(s, de + 2, DigitRunEnd(s, de + 2))
                         ELSE <<>>]

\* parse_numeric: a number as it is, the first decimal number of a text
\* with the commas removed, None otherwise.  The value is
\* (neg ? -1 : 1) * (ip + 0.frac).
parse_numeric(value) ==
    IF IsNoneOrEmpty(value) THEN NoNumber
    ELSE IF value.t = "num"
    THEN [ok |-> TRUE, neg |-> value.n < 0,
          ip |-> IF value.n < 0 THEN -value.n ELSE value.n, frac |-> <<>>]
    ELSE IF Strip(PyStr(value)) = <<>> THEN NoNumber
    ELSE SearchNumber(RemoveChar(Strip(PyStr(value)), ","))

\* parse_iso_datetime: the parsed date-time, None when the text does not parse
parse_iso_datetime(value) ==
    IF IsNoneOrEmpty(value) THEN NoDateTime
    ELSE fromisoformat(ReplaceTrailingZ(Strip(PyStr(value))))

\* re.sub(r"[^A-Z0-9]+", "_", s): every maximal run of other characters
\* becomes one underscore
RECURSIVE SubNonAlnum(_)
SubNonAlnum(s) ==
    IF s = <<>> THEN <<>>
    ELSE IF IsUpperAlnum(s[1]) THEN <<s[1]>> \o SubNonAlnum(Tail(s))
    ELSE IF Len(s) > 1 /\ ~IsUpperAlnum(s[2]) THEN SubNonAlnum(Tail(s))
    ELSE <<"_">> \o SubNonAlnum(Tail(s))

\* the token without .upper()
normalize_code_token_CaseSensitive(value) ==
    IF IsNoneOrEmpty(value) THEN JNull
    ELSE LET token == StripChars(SubNonAlnum(Strip(PyStr(value))), {"_"})
         IN IF token = <<>> THEN JNull ELSE JStr(token)

\* normalize_code_token
normalize_code_token(value) ==
    IF IsNoneOrEmpty(value) THEN JNull
    ELSE LET token == StripChars(SubNonAlnum(Upper(Strip(PyStr(value)))), {"_"})
         IN IF token = <<>> THEN JNull ELSE JStr(token)

\* the fractional digits in millionths, and whether digits beyond the
\* sixth add to them
FracMicro(frac) ==
    DigitsValue([i \in 1..6 |-> IF i <= Len(frac) THEN frac[i] ELSE "0"])
FracRest(frac) == \E i \in DOMAIN frac : i > 6 /\ frac[i] # "0"

PRODUCTION_SENTINEL == 30

\* abs(numeric - 30) > 1e-6 as binary64 computes it.  The doubles next to
\* 30 are 2^-48 apart and the literal 1e-6 lies just below 10^-6, so for a
\* decimal of up to 14 fractional digits the test is |n - 30| >= 10^-6.
DiffersFromSentinel(num) ==
    IF num.neg \/ num.ip > PRODUCTION_SENTINEL \/ num.ip < PRODUCTION_SENTINEL - 1
    THEN TRUE
    ELSE IF num.ip = PRODUCTION_SENTINEL
    THEN FracMicro(num.frac) >= 1
    ELSE \/ FracMicro(num.frac) < 999999
         \/ FracMicro(num.frac) = 999999 /\ ~FracRest(num.frac)

registration_completion_codes ==
    {<<"C", "O", "M", "P", "L", "E", "T", "E", "D">>, <<"C", "O", "M", "P", "L", "E", "T", "E">>, <<"A", "P", "P", "R", "O", "V", "E", "D">>, <<"S", "U", "B", "M", "I", "T", "T", "E", "D">>}

DELIVERED == <<"D", "E", "L", "I", "V", "E", "R", "E", "D">>

\* int(round(x)) of x = num / den >= 0, ties to the even integer
RoundHalfEven(num, den) ==
    LET q == num \div den
        r == num % den
    IN IF 2 * r < den THEN q
       ELSE IF 2 * r > den THEN q + 1
       ELSE IF q % 2 = 0 THEN q ELSE q + 1

\* ------------------------------------------------------------------------
\* _format_vehicle_mileage
\* ------------------------------------------------------------------------
\* what a helper hands back: a value, or an exception
Returns(v) == [raised |-> FALSE, value |-> v]
Raises(exc) == [raised |-> TRUE, exc |-> exc]

\* text.replace(",", " ")
CommasToSpaces(s) == [i \in DOMAIN s |-> IF s[i] = "," THEN " " ELSE s[i]]

\* float(token) for the tokens [+-]digits[.digits] and [+-].digits, the
\* value being (neg ? -1 : 1) * (ip + 0.frac); every other token is a
\* ValueError here (exponents, "inf", "nan" and digit-group underscores,
\* which float() also reads, are kept out of the inputs)
ParseFloat(token) ==
    LET signed == token # <<>> /\ token[1] \in {"+", "-"}
        body == IF signed THEN Tail(token) ELSE token
        dots == {i \in DOMAIN body : body[i] = "."}
        k == IF dots = {} THEN Len(body) + 1 ELSE CHOOSE i \in dots : TRUE
        whole == SubSeq(body, 1, k - 1)
        frac == SubSeq(body, k + 1, Len(body))
    IN IF /\ Cardinality(dots) <= 1
          /\ AllDigits(whole) /\ AllDigits(frac)
          /\ (whole # <<>> \/ frac # <<>>)
       THEN [ok |-> TRUE, neg |-> signed /\ token[1] = "-",
             ip |-> DigitsValue(whole), frac |-> frac]
       ELSE NoNumber

\* the "," grouping of f"{n:,d}"
RECURSIVE GroupThousands(_)
GroupThousands(ds) ==
    IF Len(ds) <= 3 THEN ds
    ELSE GroupThousands(SubSeq(ds, 1, Len(ds) - 3)) \o <<",">>
             \o SubSeq(ds, Len(ds) - 2, Len(ds))

\* the first two fractional digits as hundredths
Hundredths(frac) ==
    DigitsValue([i \in 1..2 |-> IF i <= Len(frac) THEN frac[i] ELSE "0"])

\* formatted_number.  abs(numeric - round(numeric)) < 0.01 holds when the
\* fraction is below .01 or above .99, and then the rounded integer is
\* printed with f"{n:,d}"; otherwise f"{numeric:,.2f}" rounds to hundredths.
\* A fraction of exactly .01 or .99, and a tie at the third digit, depend on
\* the binary64 value and are kept out of the inputs.
FormattedNumber(num) ==
    LET beyond == \E i \in DOMAIN num.frac : i > 2 /\ num.frac[i] # "0"
        near_below == Hundredths(num.frac) = 0
        near_above == Hundredths(num.frac) = 99 /\ beyond
        rounded == IF near_above THEN num.ip + 1 ELSE num.ip
        up == Len(num.frac) >= 3 /\ DigitVal(num.frac[3]) >= 5
        sign == IF num.neg THEN <<"-">> ELSE <<>>
    IN IF near_below \/ near_above
       THEN (IF rounded = 0 THEN <<>> ELSE sign)
                \o GroupThousands(NatDigits(rounded, 1))
       ELSE sign \o GroupThousands(NatDigits(num.ip, 1)) \o <<".">>
                \o NatDigits(Hundredths(num.frac) + (IF up THEN 1 ELSE 0), 2)

\* suffix: km and mi by their names, any other text unit as it is
MileageSuffix(unit) ==
    LET unit_token == Lower(Strip(PyStr(Or(unit, JStr(<<"m", "i">>)))))
    IN IF unit_token \in {<<"k", "m">>, <<"k", "i", "l", "o", "m", "e", "t", "e", "r">>, <<"k", "i", "l", "o", "m", "e", "t", "e", "r", "s">>, <<"k", "i", "l", "o", "m", "e", "t", "r", "e">>, <<"k", "i", "l", "o", "m", "e", "t", "r", "e", "s">>}
       THEN <<"k", "m">>
       ELSE IF unit_token \in {<<"m", "i">>, <<"m", "i", "l", "e">>, <<"m", "i", "l", "e", "s">>}
       THEN <<"m", "i">>
       ELSE IF unit.t = "str" /\ Strip(unit.s) # <<>> THEN Strip(unit.s)
       ELSE <<"m", "i">>

\* from float(token) on: the text itself when the token is not a number
MileageOfNumber(text, numeric, unit) ==
    IF ~numeric.ok THEN Returns(JStr(text))
    ELSE Returns(JStr(FormattedNumber(numeric) \o <<" ">> \o MileageSuffix(unit)))

\* token = text.replace(",", " ").split()[0]: IndexError when nothing is
\* left of the text but commas
MileageOfTokens(text, tokens, unit) ==
    IF tokens = <<>> THEN Raises("IndexError")
    ELSE MileageOfNumber(text, ParseFloat(tokens[1]), unit)

MileageOfText(text, unit) ==
    IF text = <<>> THEN Returns(JNull)
    ELSE MileageOfTokens(text, Split(CommasToSpaces(text)), unit)

\* _format_vehicle_mileage(value, unit); value in (None, "", [], {}) is
\* every false value but the number 0
_format_vehicle_mileage(value, unit) ==
    IF value.t # "num" /\ ~Truthy(value) THEN Returns(JNull)
    ELSE MileageOfText(Strip(PyStr(value)), unit)

\* ------------------------------------------------------------------------
\* _shorten_delivery_window_display
\* ------------------------------------------------------------------------
\* MONTH_ABBREVIATIONS, as <<name, abbreviation>> pairs
MONTH_ABBREVIATIONS ==
    {<<<<"J", "A", "N">>, <<"J", "a", "n">>>>,
     <<<<"J", "A", "N", "U", "A", "R", "Y">>, <<"J", "a", "n">>>>,
     <<<<"F", "E", "B">>, <<"F", "e", "b">>>>,
     <<<<"F", "E", "B", "R", "U", "A", "R", "Y">>, <<"F", "e", "b">>>>,
     <<<<"M", "A", "R">>, <<"M", "a", "r">>>>,
     <<<<"M", "A", "R", "C", "H">>, <<"M", "a", "r">>>>,
     <<<<"A", "P", "R">>, <<"A", "p", "r">>>>,
     <<<<"A", "P", "R", "I", "L">>, <<"A", "p", "r">>>>,
     <<<<"M", "A", "Y">>, <<"M", "a", "y">>>>,
     <<<<"J", "U", "N">>, <<"J", "u", "n">>>>,
     <<<<"J", "U", "N", "E">>, <<"J", "u", "n">>>>,
     <<<<"J", "U", "L">>, <<"J", "u", "l">>>>,
     <<<<"J", "U", "L", "Y">>, <<"J", "u", "l">>>>,
     <<<<"A", "U", "G">>, <<"A", "u", "g">>>>,
     <<<<"A", "U", "G", "U", "S", "T">>, <<"A", "u", "g">>>>,
     <<<<"S", "E", "P">>, <<"S", "e", "p">>>>,
     <<<<"S", "E", "P", "T">>, <<"S", "e", "p">>>>,
     <<<<"S", "E", "P", "T", "E", "M", "B", "E", "R">>, <<"S", "e", "p">>>>,
     <<<<"O", "C", "T">>, <<"O", "c", "t">>>>,
     <<<<"O", "C", "T", "O", "B", "E", "R">>, <<"O", "c", "t">>>>,
     <<<<"N", "O", "V">>, <<"N", "o", "v">>>>,
     <<<<"N", "O", "V", "E", "M", "B", "E", "R">>, <<"N", "o", "v">>>>,
     <<<<"D", "E", "C">>, <<"D", "e", "c">>>>,
     <<<<"D", "E", "C", "E", "M", "B", "E", "R">>, <<"D", "e", "c">>>>}

\* _abbreviate_month_token, for a token of letters
_abbreviate_month_token(token) ==
    LET cleaned == Upper(token)
        prefix == SubSeq(cleaned, 1, 3)
    IN IF \E e \in MONTH_ABBREVIATIONS : e[1] = cleaned
       THEN (CHOOSE e \in MONTH_ABBREVIATIONS : e[1] = cleaned)[2]
       ELSE IF \E e \in MONTH_ABBREVIATIONS : e[1] = prefix
       THEN (CHOOSE e \in MONTH_ABBREVIATIONS : e[1] = prefix)[2]
       ELSE SubSeq(Title(cleaned), 1, 3)

\* the characters \d and [A-Za-z] match
DigitClass == {DigitChars[i] : i \in DOMAIN DigitChars}
LetterClass == {LowerChars[i] : i \in DOMAIN LowerChars}
                   \cup {UpperChars[i] : i \in DOMAIN UpperChars}

\* the index after the run of characters of `class` that starts at i
RECURSIVE RunEnd(_, _, _)
RunEnd(s, i, class) ==
    IF i <= Len(s) /\ s[i] \in class THEN RunEnd(s, i + 1, class) ELSE i

\* (?:st|nd|rd|th)? at i, letter case ignored: the index after it
AfterOrdinal(s, i) ==
    IF i + 1 <= Len(s) /\ Lower(SubSeq(s, i, i + 1)) \in {<<"s", "t">>, <<"n", "d">>, <<"r", "d">>, <<"t", "h">>}
    THEN i + 2 ELSE i

\* \d{1,2}(?:st|nd|rd|th)?\s+[A-Za-z]{3,} at p: at most two digits, which
\* no third digit may follow, then white space and three letters or more
DayFirstAt(s, p) ==
    LET digits_end == RunEnd(s, p, DigitClass)
        day_end == IF digits_end - p > 2 THEN p + 2 ELSE digits_end
        gap == AfterOrdinal(s, day_end)
        month_start == RunEnd(s, gap, Whitespace)
        month_end == RunEnd(s, month_start, LetterClass)
    IN IF digits_end > p /\ month_start > gap /\ month_end - month_start >= 3
       THEN [ok |-> TRUE, day |-> SubSeq(s, p, day_end - 1),
             month |-> SubSeq(s, month_start, month_end - 1), end |-> month_end]
       ELSE [ok |-> FALSE]

\* [A-Za-z]{3,}\s+\d{1,2}(?:st|nd|rd|th)? at p: the whole run of letters,
\* white space, then one or two digits and the ordinal ending if there
MonthFirstAt(s, p) ==
    LET month_end == RunEnd(s, p, LetterClass)
        day_start == RunEnd(s, month_end, Whitespace)
        digits_end == RunEnd(s, day_start, DigitClass)
        day_end == IF digits_end - day_start > 2 THEN day_start + 2 ELSE digits_end
    IN IF month_end - p >= 3 /\ day_start > month_end /\ digits_end > day_start
       THEN [ok |-> TRUE, day |-> SubSeq(s, day_start, day_end - 1),
             month |-> SubSeq(s, p, month_end - 1),
             end |-> AfterOrdinal(s, day_end)]
       ELSE [ok |-> FALSE]

\* WINDOW_DATE_PATTERN at p: the day-first alternative, else the month-first
WindowDateAt(s, p) ==
    IF DayFirstAt(s, p).ok THEN DayFirstAt(s, p) ELSE MonthFirstAt(s, p)

\* the loop over WINDOW_DATE_PATTERN.finditer(text), from position p on,
\* until `limit` pairs <<month_abbrev, day_value>> are collected
RECURSIVE WindowMatches(_, _, _, _)
WindowMatches(s, p, matches, limit) ==
    IF p > Len(s) \/ Len(matches) >= limit THEN matches
    ELSE IF WindowDateAt(s, p).ok
    THEN WindowMatches(s, WindowDateAt(s, p).end,
             Append(matches, <<_abbreviate_month_token(WindowDateAt(s, p).month),
                               DigitsValue(WindowDateAt(s, p).day)>>), limit)
    ELSE WindowMatches(s, p + 1, matches, limit)

\* format_day_month of a pair
format_day_month(pair) == NatDigits(pair[2], 2) \o <<" ">> \o pair[1]

\* a single pair rendered as the endpoint it names
WindowOfMatches_SingleEndpoint(matches) ==
    IF matches = <<>> THEN JNull
    ELSE IF Len(matches) = 1 THEN JStr(format_day_month(matches[1]))
    ELSE IF format_day_month(matches[1]) = format_day_month(matches[2])
    THEN JStr(format_day_month(matches[1]))
    ELSE JStr(format_day_month(matches[1]) \o <<" ", "-", " ">>
                  \o format_day_month(matches[2]))

\* equal endpoints rendered twice
WindowOfMatches_NoMerge(matches) ==
    IF Len(matches) < 2 THEN JNull
    ELSE JStr(format_day_month(matches[1]) \o <<" ", "-", " ">>
                  \o format_day_month(matches[2]))

\* from `if len(matches) < 2` on
WindowOfMatches(matches) ==
    IF Len(matches) < 2 THEN JNull
    ELSE IF format_day_month(matches[1]) = format_day_month(matches[2])
    THEN JStr(format_day_month(matches[1]))
    ELSE JStr(format_day_month(matches[1]) \o <<" ", "-", " ">>
                  \o format_day_month(matches[2]))

\* _shorten_delivery_window_display(value); text is " ".join(str(value).split())
_shorten_delivery_window_display(value) ==
    IF IsNoneOrEmpty(value) THEN JNull
    ELSE WindowOfMatches(WindowMatches(JoinSpace(Split(PyStr(value))), 1, <<>>, 2))

\* ------------------------------------------------------------------------
\* build_order_progress
\* ------------------------------------------------------------------------
Raised(exc) == [run |-> TRUE, raised |-> TRUE, exc |-> exc]

\* the prerequisite-free rule taken one step further: any appointment text
ready_flag_AnyText(ready_datetime, ready_window_primary) ==
    Truthy(ready_window_primary)

\* ready_flag = ready_datetime is not None (ready_datetime is the parse of
\* ready_window_primary)
ready_flag(ready_datetime, ready_window_primary) == ready_datetime.ok

\* the comparison with today forgotten: any ETA that parses
in_transit_completed_AnyEta(eta_datetime, today_) == eta_datetime.ok

\* in_transit_completed = eta_date is not None and eta_date <= today
in_transit_completed(eta_datetime, today_) ==
    eta_datetime.ok /\ DateLeq(eta_datetime, today_)

\* the sentinel forgotten: any odometer number completes production
production_complete_AnyNumber(odometer_numeric) == odometer_numeric.ok

\* production_complete
production_complete(odometer_numeric) ==
    odometer_numeric.ok /\ DiffersFromSentinel(odometer_numeric)

\* a task that is not there taken as a task that does not apply
registration_complete_MissingCounts(registration_status_normalized) ==
    \/ registration_status_normalized.t # "str"
    \/ registration_status_normalized.s \in registration_completion_codes

\* registration_complete
registration_complete(registration_status_normalized) ==
    /\ registration_status_normalized.t = "str"
    /\ registration_status_normalized.s \in registration_completion_codes

\* delivered_flag = "DELIVERED" in order_status
delivered_flag(order) ==
    Contains(Upper(PyStr(Or(Get(order, "orderStatus"), JStr(<<>>)))), DELIVERED)

\* a reordering slip: registration listed before in_transit
STAGE_KEYS_RegistrationFirst ==
    <<"order_placed", "vin_assigned", "production", "registration",
      "in_transit", "ready", "delivered">>

\* the "key" of each entry of the stages list literal, in its order
STAGE_KEYS ==
    <<"order_placed", "vin_assigned", "production", "in_transit",
      "registration", "ready", "delivered">>

\* REGISTRATION_STATUS_DESCRIPTIONS, as <<code, label>> pairs
REGISTRATION_STATUS_DESCRIPTIONS ==
    {<<<<"N", "O", "T", "_", "S", "T", "A", "R", "T", "E", "D">>,
        <<"R", "e", "g", "i", "s", "t", "r", "a", "t", "i", "o", "n", " ", "n", "o", "t", " ", "s", "t", "a", "r", "t", "e", "d">>>>,
      <<<<"I", "N", "_", "P", "R", "O", "G", "R", "E", "S", "S">>,
        <<"R", "e", "g", "i", "s", "t", "r", "a", "t", "i", "o", "n", " ", "i", "n", " ", "p", "r", "o", "g", "r", "e", "s", "s">>>>,
      <<<<"S", "U", "B", "M", "I", "T", "T", "E", "D">>,
        <<"R", "e", "g", "i", "s", "t", "r", "a", "t", "i", "o", "n", " ", "s", "u", "b", "m", "i", "t", "t", "e", "d">>>>,
      <<<<"A", "P", "P", "R", "O", "V", "E", "D">>,
        <<"R", "e", "g", "i", "s", "t", "r", "a", "t", "i", "o", "n", " ", "a", "p", "p", "r", "o", "v", "e", "d">>>>,
      <<<<"C", "O", "M", "P", "L", "E", "T", "E", "D">>,
        <<"R", "e", "g", "i", "s", "t", "r", "a", "t", "i", "o", "n", " ", "c", "o", "m", "p", "l", "e", "t", "e", "d">>>>,
      <<<<"P", "E", "N", "D", "I", "N", "G">>,
        <<"R", "e", "g", "i", "s", "t", "r", "a", "t", "i", "o", "n", " ", "p", "e", "n", "d", "i", "n", "g", " ", "r", "e", "v", "i", "e", "w">>>>}

\* the label of `key` in `mapping`, else key.replace("_", " ").title()
LabelOfKey(key, mapping) ==
    IF \E e \in mapping : e[1] = key
    THEN (CHOOSE e \in mapping : e[1] = key)[2]
    ELSE Title([i \in DOMAIN key |-> IF key[i] = "_" THEN " " ELSE key[i]])

\* _describe_code(value, mapping): the key is str(value).upper(); a false
\* value is handed back as it is
_describe_code(value, mapping) ==
    IF ~Truthy(value) THEN value
    ELSE JStr(LabelOfKey(Upper(PyStr(value)), mapping))

\* registration_status_label
registration_status_label(registration_status_raw) ==
    Or(_describe_code(registration_status_raw, REGISTRATION_STATUS_DESCRIPTIONS),
       Or(scrub_text(registration_status_raw), JStr(<<"U", "n", "k", "n", "o", "w", "n">>)))

\* the registration entry; meta_value is the plate, else the status label
RegistrationStage(registration_status_raw, reggie_license_plate, registration_timestamp_raw) ==
    [key |-> STAGE_KEYS[5],
     completed |-> registration_complete(
                       normalize_code_token(registration_status_raw)),
     timestamp |-> format_timestamp(registration_timestamp_raw),
     meta_label |-> IF Truthy(reggie_license_plate) THEN "Plate" ELSE "Status",
     meta_value |-> Or(reggie_license_plate,
                       registration_status_label(registration_status_raw))]

\* odometer_raw
odometer_raw(order, details, registration_details) ==
    Or(Get(registration_details, "vehicleOdometer"),
       Or(Get(details, "vehicleOdometer"), Get(order, "vehicleOdometer")))

\* odometer_display = _format_vehicle_mileage(odometer_raw, odometer_unit)
odometer_display(order, details, registration_details) ==
    _format_vehicle_mileage(
        odometer_raw(order, details, registration_details),
        Or(Get(registration_details, "vehicleOdometerType"),
           Or(Get(details, "vehicleOdometerType"),
              Get(order, "vehicleOdometerType"))))

\* the production entry; meta_value is odometer_display or "Awaiting update"
ProductionStage(odometer_raw_, odometer_display_, production_timestamp) ==
    [key |-> STAGE_KEYS[3],
     completed |-> production_complete(parse_numeric(odometer_raw_)),
     timestamp |-> format_timestamp(production_timestamp),
     meta_value |-> IF odometer_display_.raised THEN JNull
                    ELSE Or(odometer_display_.value, JStr(<<"A", "w", "a", "i", "t", "i", "n", "g", " ", "u", "p", "d", "a", "t", "e">>))]

\* eta_labeled = f"ETA: {eta_display}" if eta_display else None
eta_labeled(eta_display) ==
    IF Truthy(eta_display)
    THEN JStr(<<"E", "T", "A", ":", " ">> \o eta_display.s)
    ELSE JNull

\* the in_transit entry; eta_timestamp is eta_labeled
InTransitStage(eta_raw, eta_display, today_) ==
    [key |-> STAGE_KEYS[4],
     completed |-> in_transit_completed(parse_iso_datetime(eta_raw), today_),
     timestamp |-> eta_labeled(eta_display),
     meta_value |-> eta_labeled(eta_display),
     has_eta |-> Truthy(eta_display)]

\* ready_timestamp: the ISO text of the parsed appointment, else the first
\* of the scheduling date fields
ready_timestamp(ready_datetime, scheduling) ==
    IF ready_datetime.ok
    THEN JStr(isoformat(ready_datetime))
    ELSE Or(Get(scheduling, "appointmentDateUtc"),
            Or(Get(scheduling, "appointmentDate"), Get(scheduling, "apptDateTime")))

\* ready_window_fallback
ready_window_fallback(scheduling) ==
    scrub_text(Or(Get(scheduling, "deliveryWindowDisplay"),
                  Get(scheduling, "deliveryWindow")))

\* <<ready_meta_label, ready_meta_value>>: the appointment text, else the
\* delivery window, shortened where it can be
ready_meta(ready_window_primary, ready_window_fallback_) ==
    IF Truthy(ready_window_primary)
    THEN <<JStr(<<"A", "p", "p", "o", "i", "n", "t", "m", "e", "n", "t">>), ready_window_primary>>
    ELSE IF Truthy(ready_window_fallback_)
    THEN <<JStr(<<"W", "i", "n", "d", "o", "w">>),
           Or(_shorten_delivery_window_display(ready_window_fallback_),
              ready_window_fallback_)>>
    ELSE <<JNull, JNull>>

\* the ready entry
ReadyStage(ready_window_primary, ready_datetime, scheduling) ==
    [key |-> STAGE_KEYS[6],
     completed |-> ready_flag(ready_datetime, ready_window_primary),
     timestamp |-> format_timestamp(ready_timestamp(ready_datetime, scheduling)),
     meta_label |-> ready_meta(ready_window_primary,
                               ready_window_fallback(scheduling))[1],
     meta_value |-> ready_meta(ready_window_primary,
                               ready_window_fallback(scheduling))[2]]

ReadyStageOf(ready_window_primary, scheduling) ==
    ReadyStage(ready_window_primary, parse_iso_datetime(ready_window_primary),
               scheduling)

InTransitStageOf(eta_raw, today_) ==
    InTransitStage(eta_raw, format_date_only(eta_raw), today_)

\* the stages list literal, before the states are assigned
StageList(order, details, scheduling, registration, registration_details, delivery_reg_data, final_payment_data, today_) ==
    LET order_placed_raw == Or(Get(registration_details, "orderPlacedDate"),
                               Get(order, "orderPlacedDate"))
        vin_value == scrub_text(Get(order, "vin"))
        vin_assigned_raw == Or(Get(order, "vinAssignmentDate"),
                               Or(Get(order, "vinMatchedDate"),
                                  Get(registration_details, "vinAssignmentDate")))
        production_timestamp == Or(Get(order, "vehicleProductionDate"),
                                   Or(Get(order, "vehicleBuildDate"),
                                      Get(order, "buildCompletionDate")))
        eta_raw == Or(Get(final_payment_data, "etaToDeliveryCenter"),
                      Get(order, "eta"))
        ready_window_primary == scrub_text(Get(scheduling, "apptDateTimeAddressStr"))
        delivered_timestamp == Or(Get(order, "deliveryDate"),
                                  Or(Get(order, "deliveredOn"),
                                     Get(order, "deliveredDate")))
        registration_status_raw == Or(Get(registration_details, "registrationStatus"),
                                      Get(registration, "status"))
        reggie_license_plate ==
            scrub_text(Or(Get(delivery_reg_data, "reggieLicensePlate"),
                          Or(Get(registration, "reggieLicensePlate"),
                             Get(registration_details, "reggieLicensePlate"))))
        registration_timestamp_raw ==
            Or(Get(registration_details, "registrationCompletionDate"),
               Or(Get(registration_details, "registrationStartDate"),
                  Get(registration, "startedOn")))
    IN << [key |-> STAGE_KEYS[1],
           completed |-> Truthy(order_placed_raw),
           timestamp |-> format_timestamp(order_placed_raw)],
          [key |-> STAGE_KEYS[2],
           completed |-> Truthy(vin_value),
           timestamp |-> format_timestamp(vin_assigned_raw)],
          ProductionStage(odometer_raw(order, details, registration_details),
                          odometer_display(order, details, registration_details),
                          production_timestamp),
          InTransitStageOf(eta_raw, today_),
          RegistrationStage(registration_status_raw, reggie_license_plate,
                            registration_timestamp_raw),
          ReadyStageOf(ready_window_primary, scheduling),
          [key |-> STAGE_KEYS[7],
           completed |-> delivered_flag(order),
           timestamp |-> format_timestamp(delivered_timestamp)] >>

\* a scan from the right: the last stage that is not completed
first_incomplete_Last(stages) ==
    IF \E i \in DOMAIN stages : ~stages[i].completed
    THEN (CHOOSE i \in DOMAIN stages :
              /\ ~stages[i].completed
              /\ \A j \in (i + 1)..Len(stages) : stages[j].completed) - 1
    ELSE Len(stages)

\* first_incomplete: 0-based index of the first stage that is not completed,
\* len(stages) when there is none
first_incomplete(stages) ==
    IF \E i \in DOMAIN stages : ~stages[i].completed
    THEN (CHOOSE i \in DOMAIN stages :
              /\ ~stages[i].completed
              /\ \A j \in 1..(i - 1) : stages[j].completed) - 1
    ELSE Len(stages)

\* stage.get("has_eta")
StageHasEta(stage) == "has_eta" \in DOMAIN stage /\ stage.has_eta

\* the loop without the in_transit override
AssignState_NoOverride(stage, idx, first) ==
    IF stage.completed THEN "complete"
    ELSE IF idx = first THEN "active"
    ELSE "upcoming"

\* the loop with completion read off the position
AssignState_ByPosition(stage, idx, first) ==
    LET pass1 == IF idx < first THEN "complete"
                 ELSE IF idx = first THEN "active"
                 ELSE "upcoming"
    IN IF stage.key = "in_transit" /\ ~stage.completed /\ ~StageHasEta(stage)
       THEN "upcoming"
       ELSE pass1

\* the loop with every incomplete stage up to the first one after the
\* active index marked active
AssignState_ActiveFromFirst(stage, idx, first) ==
    LET pass1 == IF stage.completed THEN "complete"
                 ELSE IF idx >= first THEN "active"
                 ELSE "upcoming"
    IN IF stage.key = "in_transit" /\ ~stage.completed /\ ~StageHasEta(stage)
       THEN "upcoming"
       ELSE pass1

\* the loop with the stage after the first incomplete one active as well
AssignState_ActiveNextToo(stage, idx, first) ==
    LET pass1 == IF stage.completed THEN "complete"
                 ELSE IF idx \in {first, first + 1} THEN "active"
                 ELSE "upcoming"
    IN IF stage.key = "in_transit" /\ ~stage.completed /\ ~StageHasEta(stage)
       THEN "upcoming"
       ELSE pass1

\* one turn of the state-assignment loop, for the stage at 0-based idx
AssignState(stage, idx, first) ==
    LET pass1 == IF stage.completed THEN "complete"
                 ELSE IF idx = first THEN "active"
                 ELSE "upcoming"
    IN IF stage.key = "in_transit" /\ ~stage.completed /\ ~StageHasEta(stage)
       THEN "upcoming"
       ELSE pass1

WithState(stage, st) ==
    [f \in DOMAIN stage \cup {"state"} |-> IF f = "state" THEN st ELSE stage[f]]

\* int() without round(): truncation
percent_Truncated(completed_count, total) ==
    IF total # 0 THEN (100 * completed_count) \div total ELSE 0

\* percent = int(round((completed_count / total) * 100)) if total else 0
percent(completed_count, total) ==
    IF total # 0 THEN RoundHalfEven(100 * completed_count, total) ELSE 0

\* the index without the clamp
active_index_Unclamped(first, total) ==
    IF total # 0 THEN first ELSE 0

\* active_index = min(first_incomplete, total - 1) if total else 0
active_index(first, total) ==
    IF total # 0 THEN (IF first < total - 1 THEN first ELSE total - 1) ELSE 0

\* the loop over enumerate(stages)
AssignStates(stages, first) ==
    [i \in DOMAIN stages |->
        WithState(stages[i], AssignState(stages[i], i - 1, first))]

\* the returned record
ProgressResult(stages, first, completed_count, total) ==
    [run |-> TRUE, raised |-> FALSE,
     stages |-> AssignStates(stages, first),
     completed |-> completed_count,
     total |-> total,
     percent |-> percent(completed_count, total),
     active_index |-> active_index(first, total)]

ProgressOfStages(stages) ==
    ProgressResult(stages, first_incomplete(stages),
                   Cardinality({i \in DOMAIN stages : stages[i].completed}),
                   Len(stages))

build_order_progress(order_entry_, today_) ==
    LET order == Or(GetD(order_entry_, "order", EmptyMap), EmptyMap)
        details == Or(GetD(order_entry_, "details", EmptyMap), EmptyMap)
        tasks == Or(GetD(details, "tasks", EmptyMap), EmptyMap)
        scheduling == Or(GetD(tasks, "scheduling", EmptyMap), EmptyMap)
        registration == Or(GetD(tasks, "registration", EmptyMap), EmptyMap)
        registration_details == Or(GetD(registration, "orderDetails", EmptyMap), EmptyMap)
        delivery_details == Or(GetD(tasks, "deliveryDetails", EmptyMap), EmptyMap)
        delivery_reg_data == Or(GetD(delivery_details, "regData", EmptyMap), EmptyMap)
        final_payment == Or(GetD(tasks, "finalPayment", EmptyMap), EmptyMap)
        final_payment_data == IF final_payment.t = "map"
                              THEN GetD(final_payment, "data", EmptyMap)
                              ELSE EmptyMap
        \* the objects whose .get is called before the odometer is formatted
        receivers == <<order, details, tasks, registration,
                       registration_details, delivery_details>>
        \* and those whose .get is called after it
        later_receivers == <<final_payment_data, scheduling, delivery_reg_data>>
    IN IF \E r \in DOMAIN receivers : ~HasGet(receivers[r])
       THEN Raised("AttributeError")
       ELSE IF odometer_display(order, details, registration_details).raised
       THEN Raised("IndexError")
       ELSE IF \E r \in DOMAIN later_receivers : ~HasGet(later_receivers[r])
       THEN Raised("AttributeError")
       ELSE ProgressOfStages(
                StageList(order, details, scheduling, registration,
                          registration_details, delivery_reg_data,
                          final_payment_data, today_))

\* ------------------------------------------------------------------------
\* unpack_order_data
\* ------------------------------------------------------------------------
\* final_payment.get("data", {}) if isinstance(final_payment, dict) else {}
FinalPaymentData(final_payment) ==
    IF final_payment.t = "map" THEN GetD(final_payment, "data", EmptyMap) ELSE EmptyMap

unpack_order_data(order_entry_) ==
    LET order == Or(GetD(order_entry_, "order", EmptyMap), EmptyMap)
        details == Or(GetD(order_entry_, "details", EmptyMap), EmptyMap)
        tasks == Or(GetD(details, "tasks", EmptyMap), EmptyMap)
        final_payment == Or(GetD(tasks, "finalPayment", EmptyMap), EmptyMap)
    IN IF ~HasGet(details) \/ ~HasGet(tasks)
       THEN Raised("AttributeError")
       ELSE [run |-> TRUE, raised |-> FALSE,
             value |->
                [order |-> order,
                 details |-> details,
                 tasks |-> tasks,
                 scheduling |-> Or(GetD(tasks, "scheduling", EmptyMap), EmptyMap),
                 registration |-> Or(GetD(tasks, "registration", EmptyMap), EmptyMap),
                 final_payment |-> final_payment,
                 final_payment_data |-> FinalPaymentData(final_payment),
                 delivery_details |->
                     Or(GetD(tasks, "deliveryDetails", EmptyMap), EmptyMap)]]

\* ------------------------------------------------------------------------
\* build_order_insights: whether the call returns or raises.  Every .get on
\* a value that is not a dict raises AttributeError; iterating the gates of
\* the readiness record raises TypeError when they are a number.
\* ------------------------------------------------------------------------
build_order_insights(order_entry_) ==
    LET order == Or(GetD(order_entry_, "order", EmptyMap), EmptyMap)
        details == Or(GetD(order_entry_, "details", EmptyMap), EmptyMap)
        tasks == Or(GetD(details, "tasks", EmptyMap), EmptyMap)
        scheduling == Or(GetD(tasks, "scheduling", EmptyMap), EmptyMap)
        registration == Or(GetD(tasks, "registration", EmptyMap), EmptyMap)
        final_payment == Or(GetD(tasks, "finalPayment", EmptyMap), EmptyMap)
        final_payment_data == FinalPaymentData(final_payment)
        financing_outer == Or(Get(final_payment_data, "financingDetails"), EmptyMap)
        financing_details == Or(Get(financing_outer, "teslaFinanceDetails"), EmptyMap)
        currency_format == Or(Get(final_payment, "currencyFormat"), EmptyMap)
        readiness == Or(Get(final_payment_data, "deliveryReadinessDetail"),
                        Or(Get(final_payment_data, "deliveryReadiness"), EmptyMap))
        \* read only when scheduling.deliveryAddressTitle is falsy
        delivery_address ==
            IF Truthy(Get(scheduling, "deliveryAddressTitle"))
            THEN EmptyMap
            ELSE Or(Get(final_payment_data, "deliveryAddress"), EmptyMap)
        registration_details == Or(GetD(registration, "orderDetails", EmptyMap), EmptyMap)
        strings == GetD(registration, "strings", EmptyMap)
        alert_statuses == GetD(registration, "alertStatuses", EmptyMap)
        gates == Or(Get(readiness, "gates"), JList(<<>>))
        \* every object whose .get is called, in the order of the calls
        receivers == <<details, tasks, final_payment_data, financing_outer,
                       final_payment, currency_format, financing_details,
                       scheduling, delivery_address, readiness, registration,
                       registration_details, strings, alert_statuses, order>>
    IN IF \E r \in DOMAIN receivers : ~HasGet(receivers[r])
       THEN Raised("AttributeError")
       ELSE IF gates.t = "num"
       THEN Raised("TypeError")
       ELSE [run |-> TRUE, raised |-> FALSE]

\* ------------------------------------------------------------------------
\* Inputs: the envelopes {order, details: {tasks}} the upstream API returns
\* ------------------------------------------------------------------------
\* at most this many of the envelope's mappings hold a value of another type
MaxMistyped == 1

\* order.orderPlacedDate
PlacedValues == {Absent, JStr(<<"2", "0", "2", "4", "-", "0", "1", "-", "1", "5", "T", "1", "0", ":", "0", "0", ":", "0", "0", "Z">>)}
\* order.vin
VinValues == {Absent, JStr(<<"5", "Y", "J", "3", "E", "1", "E", "A", "7", "K", "F", "3", "1", "7", "0", "0", "0">>)}
\* registration.orderDetails.vehicleOdometer
OdometerValues == {Absent, JStr(<<"3", "0", " ", "m", "i">>), JStr(<<"1", "2", ",", "3", "4", "5", " ", "m", "i">>)}
\* finalPayment.data.etaToDeliveryCenter
EtaValues == {Absent, JStr(<<"2", "0", "2", "4", "-", "0", "3", "-", "0", "1", "T", "0", "0", ":", "0", "0", ":", "0", "0", "Z">>),
              JStr(<<"2", "0", "2", "4", "-", "0", "3", "-", "2", "0">>), JStr(<<"s", "o", "o", "n">>)}
\* registration.status
RegistrationStatusValues == {Absent, JStr(<<"i", "n", "-", "p", "r", "o", "g", "r", "e", "s", "s">>), JStr(<<"S", "U", "B", "M", "I", "T", "T", "E", "D">>)}
\* scheduling.apptDateTimeAddressStr that name a real date-time
ValidAppointments == {JStr(<<"2", "0", "2", "4", "-", "0", "3", "-", "1", "5", "T", "1", "4", ":", "3", "0", ":", "0", "0", "Z">>)}
\* scheduling.apptDateTimeAddressStr that do not
InvalidAppointments == {JStr(<<"M", "a", "r", " ", "1", "5", " ", "a", "t", " ", "2", "p", "m">>)}
AppointmentValues == {Absent} \cup ValidAppointments \cup InvalidAppointments
\* order.orderStatus
OrderStatusValues == {JStr(<<"B", "O", "O", "K", "E", "D">>), JStr(<<"D", "e", "l", "i", "v", "e", "r", "e", "d">>)}

Facts ==
    [placed : PlacedValues, vin : VinValues, odometer : OdometerValues,
     eta : EtaValues, status : RegistrationStatusValues,
     appointment : AppointmentValues, orderStatus : OrderStatusValues,
     unit : {Absent}, plate : {Absent}]

\* the values expected to be mappings
Nodes == {"order", "details", "tasks", "scheduling", "registration",
          "orderDetails", "deliveryDetails", "regData", "finalPayment", "data"}

\* what a mistyped node holds instead of a mapping
WrongValues == {JNull, JStr(<<"o", "o", "p", "s">>), JNum(7), JList(<<JNum(1)>>)}

\* the current UTC date (datetime.utcnow().date())
TodayValues == {[y |-> 2024, mo |-> 3, d |-> 10]}

Envelope(f, mistyped, wrong) ==
    LET Node(name, content) == IF name \in mistyped THEN wrong ELSE content
        order_ == Obj(<< <<"orderPlacedDate", f.placed>>, <<"vin", f.vin>>,
                         <<"orderStatus", f.orderStatus>> >>)
        scheduling_ == Obj(<< <<"apptDateTimeAddressStr", f.appointment>> >>)
        orderDetails_ == Obj(<< <<"vehicleOdometer", f.odometer>>,
                                <<"vehicleOdometerType", f.unit>> >>)
        registration_ == Obj(<< <<"status", f.status>>,
                                <<"reggieLicensePlate", f.plate>>,
                                <<"orderDetails", Node("orderDetails", orderDetails_)>> >>)
        data_ == Obj(<< <<"etaToDeliveryCenter", f.eta>> >>)
        finalPayment_ == Obj(<< <<"data", Node("data", data_)>> >>)
        deliveryDetails_ == Obj(<< <<"regData", Node("regData", EmptyMap)>> >>)
        tasks_ == Obj(<< <<"scheduling", Node("scheduling", scheduling_)>>,
                         <<"registration", Node("registration", registration_)>>,
                         <<"deliveryDetails", Node("deliveryDetails", deliveryDetails_)>>,
                         <<"finalPayment", Node("finalPayment", finalPayment_)>> >>)
        details_ == Obj(<< <<"tasks", Node("tasks", tasks_)>> >>)
    IN Obj(<< <<"order", Node("order", order_)>>,
              <<"details", Node("details", details_)>> >>)

\* envelopes that leave data out: the whole content, the details, the
\* tasks, the order, or every task; a missing key is read with .get(key, {})
SparseEnvelopes ==
    {Envelope(f, missing, Absent) :
        f \in Facts,
        missing \in {{"order", "details"}, {"details"}, {"tasks"}, {"order"},
                     {"scheduling", "registration", "deliveryDetails", "finalPayment"}}}

\* ------------------------------------------------------------------------
\* State
\* ------------------------------------------------------------------------
VARIABLES
    order_entry,    \* the envelope of one order
    today,          \* the UTC date of the derivation
    progress,       \* what build_order_progress(order_entry) gave, once called
    insights,       \* what build_order_insights(order_entry) gave, once called
    unpacked,       \* what unpack_order_data(order_entry) gave, once called
    calls,          \* the repeated build_order_progress calls: date and output
    subject,        \* the formatting helper under study and its arguments
    outcome,        \* what the helper returned, call after call
    request,        \* the HTTP request being served
    response,       \* what its handler answered, once run
    upstream,       \* the calls the handler made to the Tesla endpoints
    auth,           \* what ensure_authenticated gave, once called
    visit_metrics,  \* the fields of the VisitMetrics object
    threads,        \* the threads inside record and force_log
    log             \* the snapshots handed to the logger, in order

derivationVars == <<order_entry, today, progress, insights, unpacked, calls, subject, outcome>>
webVars == <<request, response, upstream, auth>>
metricsVars == <<visit_metrics, threads, log>>
vars == <<derivationVars, webVars, metricsVars>>

\* no formatting helper is under study
NoSubject == [fn |-> "none"]

NotRun == [run |-> FALSE]

\* no request is being served
NoRequest == [path |-> "none"]

NoWeb ==
    /\ request = NoRequest
    /\ response = NotRun
    /\ upstream = <<>>
    /\ auth = NotRun

\* VisitMetrics.__init__; _lock is the thread holding the lock, <<>> if
\* none; _per_path counts from 0 as a Counter does
NewVisitMetrics ==
    [_total |-> 0,
     _per_path |-> [p \in {"/", "/refresh", "<unknown>"} |-> 0],
     _last_log |-> 0,
     _lock |-> <<>>]

\* nothing was recorded and no thread is inside the object
NoVisits ==
    /\ visit_metrics = NewVisitMetrics
    /\ threads = <<>>
    /\ log = <<>>

Init ==
    /\ \/ \E f \in Facts, mistyped \in SUBSET Nodes, wrong \in WrongValues :
              /\ Cardinality(mistyped) <= MaxMistyped
              /\ order_entry = Envelope(f, mistyped, wrong)
       \/ order_entry \in SparseEnvelopes
    /\ today \in TodayValues
    /\ progress = NotRun
    /\ insights = NotRun
    /\ unpacked = NotRun
    /\ calls = <<>>
    /\ subject = NoSubject
    /\ outcome = <<>>
    /\ NoWeb
    /\ NoVisits

\* "progress": build_order_progress(order_data)
BuildOrderProgress ==
    /\ progress = NotRun
    /\ progress' = build_order_progress(order_entry, today)
    /\ UNCHANGED <<webVars, metricsVars, order_entry, today, insights, unpacked, calls, subject, outcome>>

\* "insights": build_order_insights(order_data)
BuildOrderInsights ==
    /\ insights = NotRun
    /\ insights' = build_order_insights(order_entry)
    /\ UNCHANGED <<webVars, metricsVars, order_entry, today, progress, unpacked, calls, subject, outcome>>

\* unpack_order_data(order_entry)
UnpackOrderData ==
    /\ unpacked = NotRun
    /\ unpacked' = unpack_order_data(order_entry)
    /\ UNCHANGED <<webVars, metricsVars, order_entry, today, progress, insights, calls, subject, outcome>>

Next ==
    \/ BuildOrderProgress
    \/ BuildOrderInsights
    \/ UnpackOrderData

Spec == Init /\ [][Next]_vars

\* ------------------------------------------------------------------------
\* The fields the stages are read from, in their many spellings
\* ------------------------------------------------------------------------
\* the odometer as a number and as text, ETAs around today, registration
\* statuses in several spellings, with and without unit and licence plate
FieldFacts ==
    [placed : {Absent}, vin : {Absent}, odometer : {Absent,
         JNum(0),
         JStr(<<"0">>),
         JNum(-5),
         JStr(<<"-", "5", " ", "m", "i">>),
         JNum(30),
         JStr(<<"3", "0", " ", "m", "i">>),
         JStr(<<"3", "0", ".", "0", "0", "0", "0", "0", "0", "1">>),
         JStr(<<"3", "0", ".", "0", "0", "0", "0", "0", "2", " ", "m", "i">>),
         JNum(31),
         JStr(<<"a", "b", "c">>),
         JStr(<<",">>),
         JStr(<<"1", ",", "2", "3", "4", ".", "5", " ", "k", "m">>)},
     eta : {Absent,
         JStr(<<"2", "0", "2", "4", "-", "0", "3", "-", "0", "1", "T", "0", "0", ":", "0", "0", ":", "0", "0", "Z">>),
         JStr(<<"2", "0", "2", "4", "-", "0", "3", "-", "1", "0">>),
         JStr(<<"2", "0", "2", "4", "-", "0", "3", "-", "2", "0">>),
         JStr(<<"2", "0", "2", "4", "-", "0", "3", "-", "1", "1", "T", "0", "6", ":", "0", "0", ":", "0", "0", "+", "0", "2", ":", "0", "0">>),
         JStr(<<"s", "o", "o", "n">>),
         JStr(<<>>)}, status : {Absent,
         JStr(<<"i", "n", "-", "p", "r", "o", "g", "r", "e", "s", "s">>),
         JStr(<<"I", "N", "_", "P", "R", "O", "G", "R", "E", "S", "S">>),
         JStr(<<"I", "n", " ", " ", " ", "P", "r", "o", "g", "r", "e", "s", "s">>),
         JStr(<<"S", "U", "B", "M", "I", "T", "T", "E", "D">>),
         JStr(<<"s", "u", "b", "m", "i", "t", "t", "e", "d">>),
         JStr(<<" ", "C", "o", "m", "p", "l", "e", "t", "e", "d", "!", " ">>),
         JStr(<<"a", "p", "p", "r", "o", "v", "e", "d", "?">>),
         JStr(<<"c", "o", "m", "p", "l", "e", "t", "e">>),
         JStr(<<"P", "E", "N", "D", "I", "N", "G">>),
         JNum(5),
         JStr(<<"s", "u", "b", " ", "m", "i", "t", "t", "e", "d">>)},
     appointment : {Absent}, orderStatus : {JStr(<<"B", "O", "O", "K", "E", "D">>)},
     unit : {Absent, JStr(<<"k", "m">>)}, plate : {Absent, JStr(<<"A", "B", "-", "1", "2", "3">>)}]

\* the helper under study is normalize_code_token, on the status of the
\* envelope
InitFields ==
    /\ \E f \in FieldFacts :
           /\ order_entry = Envelope(f, {}, JNull)
           /\ subject = [fn |-> "normalize_code_token", value |-> f.status]
    /\ today \in TodayValues
    /\ progress = NotRun
    /\ insights = NotRun
    /\ unpacked = NotRun
    /\ calls = <<>>
    /\ outcome = <<>>
    /\ NoWeb
    /\ NoVisits

\* registration_status_normalized = normalize_code_token(registration_status_raw)
NormalizeCodeToken ==
    /\ subject.fn = "normalize_code_token"
    /\ outcome = <<>>
    /\ outcome' = <<Returns(normalize_code_token(
                        IF subject.value = Absent THEN JNull ELSE subject.value))>>
    /\ UNCHANGED <<webVars, metricsVars, order_entry, today, progress, insights, unpacked, calls, subject>>

\* normalize_code_token on a token it produced
NormalizeCodeTokenAgain ==
    /\ subject.fn = "normalize_code_token"
    /\ Len(outcome) = 1
    /\ outcome' = Append(outcome, Returns(normalize_code_token(outcome[1].value)))
    /\ UNCHANGED <<webVars, metricsVars, order_entry, today, progress, insights, unpacked, calls, subject>>

NextFields ==
    \/ BuildOrderProgress
    \/ NormalizeCodeToken
    \/ NormalizeCodeTokenAgain

SpecFields == InitFields /\ [][NextFields]_vars

\* ------------------------------------------------------------------------
\* The formatting helpers on their own
\* the helper calls studied: odometer values and units for
\* _format_vehicle_mileage, delivery windows for
\* _shorten_delivery_window_display, values for _format_timestamp
Subjects ==
    [fn : {"_format_vehicle_mileage"}, value : {JStr(<<"1", "2", ",", "3", "4", "5", " ", "m", "i">>),
         JNum(12345),
         JStr(<<"9", "9", "9">>),
         JStr(<<"3", "0", " ", "m", "i">>),
         JStr(<<"1", ",", "2", "3", "4", ".", "5">>),
         JStr(<<"0", ".", "5">>),
         JStr(<<"a", "b", "c">>),
         JStr(<<",">>),
         JStr(<<"-", "5">>),
         JStr(<<"1", "2", "3", "4", "5", "6", "7">>),
         JStr(<<"1", "2", ".", "3", "4", "9">>),
         JNum(0),
         JStr(<<>>),
         JNull}, unit : {JNull,
         JStr(<<"k", "m">>),
         JStr(<<" ", "M", "i", "l", "e", "s", " ">>),
         JStr(<<"f", "u", "r", "l", "o", "n", "g">>)}]
        \cup [fn : {"_shorten_delivery_window_display"}, value : {JStr(<<"1", "5", " ", "M", "a", "r", "c", "h", " ", "-", " ", "2", "0", " ", "M", "a", "r", "c", "h">>),
         JStr(<<"M", "a", "r", "c", "h", " ", "1", "5", " ", "-", " ", "M", "a", "r", "c", "h", " ", "2", "0">>),
         JStr(<<"1", "5", " ", "-", " ", "2", "0", " ", "M", "a", "r", "c", "h", " ", "2", "0", "2", "4">>),
         JStr(<<"M", "a", "r", " ", "1", "5">>),
         JStr(<<"1", "5", " ", "M", "a", "r", " ", "-", " ", "1", "5", " ", "M", "a", "r", "c", "h">>),
         JStr(<<>>),
         JNull,
         JStr(<<"n", "o", " ", "d", "a", "t", "e", "s">>),
         JStr(<<"2", "0", "2", "4", " ", "M", "a", "r", " ", "1", "5", " ", "A", "p", "r">>),
         JStr(<<"1", "5", "t", "h", " ", "M", "a", "r", " ", "t", "o", " ", "2", "N", "D", " ", "a", "p", "r">>),
         JNum(5),
         JStr(<<"J", "a", "n", " ", "1", " ", "J", "a", "n", " ", "0", "1">>),
         JStr(<<"1", " ", "M", "a", "y">>),
         JStr(<<"S", "e", "p", "t", " ", "3", "r", "d", " ", "S", "e", "p", " ", "0", "4", " ", "O", "c", "t", " ", "5">>),
         JStr(<<"a", "b", " ", "1", "2", " ", "c", "d", " ", "1", "3">>),
         JStr(<<"3", " ", "J", "u", "n", "e">>)}, unit : {JNull}]
        \cup [fn : {"_format_timestamp"}, value : {JStr(<<"n", "o", "t", "-", "a", "-", "d", "a", "t", "e">>),
         JStr(<<"2", "0", "2", "4", "-", "0", "3", "-", "0", "1", "T", "1", "0", ":", "2", "0", ":", "3", "0", "Z">>),
         JStr(<<>>),
         JNull,
         JNum(0),
         JNum(7),
         JStr(<<" ", "2", "0", "2", "4", "-", "0", "3", "-", "0", "1", " ">>),
         JStr(<<"2", "0", "2", "4", "-", "0", "3", "-", "0", "1">>),
         JStr(<<"2", "0", "2", "4", "-", "0", "3", "-", "0", "1", "T", "1", "0", ":", "2", "0", "+", "0", "2", ":", "0", "0">>),
         JStr(<<"2", "0", "2", "4", "-", "0", "2", "-", "3", "0">>),
         JStr(<<"2", "0", "2", "3", "-", "1", "2", "-", "3", "1", "T", "2", "3", ":", "5", "9", ":", "5", "9">>),
         JStr(<<"Z">>),
         JStr(<<"1", "9", "9", "9", "-", "1", "2", "-", "3", "1", " ", "0", "8", ":", "0", "5">>),
         JStr(<<"2", "0", "2", "4", "-", "1", "3", "-", "0", "1">>)}, unit : {JNull}]

\* no envelope is involved: order_entry is the empty one
InitHelpers ==
    /\ order_entry = EmptyMap
    /\ today \in TodayValues
    /\ progress = NotRun
    /\ insights = NotRun
    /\ unpacked = NotRun
    /\ calls = <<>>
    /\ subject \in Subjects
    /\ outcome = <<>>
    /\ NoWeb
    /\ NoVisits

\* _format_vehicle_mileage(value, unit)
FormatVehicleMileage ==
    /\ subject.fn = "_format_vehicle_mileage"
    /\ outcome = <<>>
    /\ outcome' = <<_format_vehicle_mileage(subject.value, subject.unit)>>
    /\ UNCHANGED <<webVars, metricsVars, order_entry, today, progress, insights, unpacked, calls, subject>>

\* _format_vehicle_mileage on the string it returned, with the same unit
FormatVehicleMileageAgain ==
    /\ subject.fn = "_format_vehicle_mileage"
    /\ Len(outcome) = 1
    /\ ~outcome[1].raised
    /\ outcome[1].value # JNull
    /\ outcome' = Append(outcome,
                         _format_vehicle_mileage(outcome[1].value, subject.unit))
    /\ UNCHANGED <<webVars, metricsVars, order_entry, today, progress, insights, unpacked, calls, subject>>

\* _shorten_delivery_window_display(value)
ShortenDeliveryWindowDisplay ==
    /\ subject.fn = "_shorten_delivery_window_display"
    /\ outcome = <<>>
    /\ outcome' = <<Returns(_shorten_delivery_window_display(subject.value))>>
    /\ UNCHANGED <<webVars, metricsVars, order_entry, today, progress, insights, unpacked, calls, subject>>

\* _format_timestamp(value); `except Exception` leaves nothing to raise
FormatTimestamp ==
    /\ subject.fn = "_format_timestamp"
    /\ outcome = <<>>
    /\ outcome' = <<Returns(_format_timestamp(subject.value))>>
    /\ UNCHANGED <<webVars, metricsVars, order_entry, today, progress, insights, unpacked, calls, subject>>

NextHelpers ==
    \/ FormatVehicleMileage
    \/ FormatVehicleMileageAgain
    \/ ShortenDeliveryWindowDisplay
    \/ FormatTimestamp

SpecHelpers == InitHelpers /\ [][NextHelpers]_vars

\* ------------------------------------------------------------------------
\* The option catalog: describe_market_options, _split_option_codes
\* ------------------------------------------------------------------------
\* the printable ASCII characters, the grave accent left out, in code-point
\* order: the order in which Python compares two str values
Ascii ==
    <<" ", "!", "\"", "#", "$", "%", "&", "'", "(", ")", "*", "+", ",", "-",
      ".", "/", "0", "1", "2", "3", "4", "5", "6", "7", "8", "9", ":", ";",
      "<", "=", ">", "?", "@", "A", "B", "C", "D", "E", "F", "G", "H", "I",
      "J", "K", "L", "M", "N", "O", "P", "Q", "R", "S", "T", "U", "V", "W",
      "X", "Y", "Z", "[", "\\", "]", "^", "_", "a", "b", "c", "d", "e", "f",
      "g", "h", "i", "j", "k", "l", "m", "n", "o", "p", "q", "r", "s", "t",
      "u", "v", "w", "x", "y", "z", "{", "|", "}", "~">>

\* a <= b for two str values
TextLeq(a, b) ==
    \/ \E i \in 1..Len(a) :
          /\ i <= Len(b)
          /\ SubSeq(a, 1, i - 1) = SubSeq(b, 1, i - 1)
          /\ IndexOf(a[i], Ascii) < IndexOf(b[i], Ascii)
    \/ (Len(a) <= Len(b) /\ a = SubSeq(b, 1, Len(a)))

\* sorted(...) of a set of distinct str values
RECURSIVE SortedTexts(_)
SortedTexts(S) ==
    IF S = {} THEN <<>>
    ELSE LET least == CHOOSE x \in S : \A y \in S : TextLeq(x, y)
         IN <<least>> \o SortedTexts(S \ {least})

\* list(dict.fromkeys(values)): the first occurrence of each value
Dedup(values) ==
    LET keep == {i \in DOMAIN values : \A j \in 1..(i - 1) : values[j] # values[i]}
        nth[k \in 0..Len(values)] ==
            IF k = 0 THEN 0
            ELSE CHOOSE i \in keep : i > nth[k - 1] /\ \A j \in keep : j > nth[k - 1] => i <= j
    IN [k \in 1..Cardinality(keep) |-> values[nth[k]]]

\* re.split of a pattern [...]+ whose class is `delims`: the pieces between
\* the runs of delimiters, the empty piece before a leading and after a
\* trailing run included
RECURSIVE SplitRuns(_, _)
SplitRuns(s, delims) ==
    IF \A i \in DOMAIN s : s[i] \notin delims THEN <<s>>
    ELSE LET cut == CHOOSE i \in DOMAIN s :
                        s[i] \in delims /\ \A j \in 1..(i - 1) : s[j] \notin delims
         IN <<SubSeq(s, 1, cut - 1)>>
                \o SplitRuns(SubSeq(s, RunEnd(s, cut, delims), Len(s)), delims)

\* s.startswith(prefix)
StartsWith(s, prefix) ==
    Len(s) >= Len(prefix) /\ SubSeq(s, 1, Len(prefix)) = prefix

\* a dict whose insertion order matters to the caller: the entries
\* <<k1, v1>>, ... in that order
OrderedMap(entries) ==
    [t |-> "map",
     m |-> [k \in {entries[i][1] : i \in DOMAIN entries} |->
               entries[CHOOSE i \in DOMAIN entries : entries[i][1] = k][2]],
     keys |-> [i \in DOMAIN entries |-> entries[i][1]]]

\* list(d.values())
DictValues(d) == [i \in DOMAIN d.keys |-> d.m[d.keys[i]]]

\* MARKET_OPTION_CATALOG, one record per code
MARKET_OPTION_CATALOG ==
    {[code |-> <<"M", "D", "L", "3">>, category |-> <<"V", "e", "h", "i", "c", "l", "e">>,
     name |-> <<"M", "o", "d", "e", "l", " ", "3", " ", "P", "l", "a", "t", "f", "o", "r", "m">>],
    [code |-> <<"M", "D", "L", "Y">>, category |-> <<"V", "e", "h", "i", "c", "l", "e">>,
     name |-> <<"M", "o", "d", "e", "l", " ", "Y", " ", "P", "l", "a", "t", "f", "o", "r", "m">>],
    [code |-> <<"M", "D", "L", "S">>, category |-> <<"V", "e", "h", "i", "c", "l", "e">>,
     name |-> <<"M", "o", "d", "e", "l", " ", "S", " ", "P", "l", "a", "t", "f", "o", "r", "m">>],
    [code |-> <<"M", "D", "L", "X">>, category |-> <<"V", "e", "h", "i", "c", "l", "e">>,
     name |-> <<"M", "o", "d", "e", "l", " ", "X", " ", "P", "l", "a", "t", "f", "o", "r", "m">>],
    [code |-> <<"M", "T", "S", "0", "3">>, category |-> <<"M", "a", "n", "u", "f", "a", "c", "t", "u", "r", "i", "n", "g">>,
     name |-> <<"M", "o", "d", "e", "l", " ", "S", " ", "L", "o", "n", "g", " ", "R", "a", "n", "g", "e">>],
    [code |-> <<"M", "T", "S", "0", "7">>, category |-> <<"M", "a", "n", "u", "f", "a", "c", "t", "u", "r", "i", "n", "g">>,
     name |-> <<"M", "o", "d", "e", "l", " ", "S", " ", "L", "o", "n", "g", " ", "R", "a", "n", "g", "e", " ", "P", "l", "u", "s">>],
    [code |-> <<"M", "T", "S", "1", "1">>, category |-> <<"M", "a", "n", "u", "f", "a", "c", "t", "u", "r", "i", "n", "g">>,
     name |-> <<"M", "o", "d", "e", "l", " ", "S", " ", "P", "l", "a", "i", "d">>],
    [code |-> <<"M", "T", "X", "0", "3">>, category |-> <<"M", "a", "n", "u", "f", "a", "c", "t", "u", "r", "i", "n", "g">>,
     name |-> <<"M", "o", "d", "e", "l", " ", "X", " ", "L", "o", "n", "g", " ", "R", "a", "n", "g", "e">>],
    [code |-> <<"M", "T", "X", "0", "4">>, category |-> <<"M", "a", "n", "u", "f", "a", "c", "t", "u", "r", "i", "n", "g">>,
     name |-> <<"M", "o", "d", "e", "l", " ", "X", " ", "P", "e", "r", "f", "o", "r", "m", "a", "n", "c", "e">>],
    [code |-> <<"M", "T", "X", "0", "7">>, category |-> <<"M", "a", "n", "u", "f", "a", "c", "t", "u", "r", "i", "n", "g">>,
     name |-> <<"M", "o", "d", "e", "l", " ", "X", " ", "L", "o", "n", "g", " ", "R", "a", "n", "g", "e", " ", "P", "l", "u", "s">>],
    [code |-> <<"M", "T", "X", "1", "1">>, category |-> <<"M", "a", "n", "u", "f", "a", "c", "t", "u", "r", "i", "n", "g">>,
     name |-> <<"M", "o", "d", "e", "l", " ", "X", " ", "P", "l", "a", "i", "d">>],
    [code |-> <<"M", "T", "3", "0", "0">>, category |-> <<"M", "a", "n", "u", "f", "a", "c", "t", "u", "r", "i", "n", "g">>,
     name |-> <<"M", "o", "d", "e", "l", " ", "3", " ", "S", "t", "a", "n", "d", "a", "r", "d", " ", "R", "a", "n", "g", "e", " ", "R", "W", "D">>],
    [code |-> <<"M", "T", "3", "0", "1">>, category |-> <<"M", "a", "n", "u", "f", "a", "c", "t", "u", "r", "i", "n", "g">>,
     name |-> <<"M", "o", "d", "e", "l", " ", "3", " ", "S", "t", "a", "n", "d", "a", "r", "d", " ", "R", "a", "n", "g", "e", " ", "P", "l", "u", "s", " ", "R", "W", "D">>],
    [code |-> <<"M", "T", "3", "0", "2">>, category |-> <<"M", "a", "n", "u", "f", "a", "c", "t", "u", "r", "i", "n", "g">>,
     name |-> <<"M", "o", "d", "e", "l", " ", "3", " ", "L", "o", "n", "g", " ", "R", "a", "n", "g", "e", " ", "R", "W", "D">>],
    [code |-> <<"M", "T", "3", "0", "3">>, category |-> <<"M", "a", "n", "u", "f", "a", "c", "t", "u", "r", "i", "n", "g">>,
     name |-> <<"M", "o", "d", "e", "l", " ", "3", " ", "L", "o", "n", "g", " ", "R", "a", "n", "g", "e", " ", "A", "W", "D">>],
    [code |-> <<"M", "T", "3", "0", "4">>, category |-> <<"M", "a", "n", "u", "f", "a", "c", "t", "u", "r", "i", "n", "g">>,
     name |-> <<"M", "o", "d", "e", "l", " ", "3", " ", "L", "o", "n", "g", " ", "R", "a", "n", "g", "e", " ", "P", "e", "r", "f", "o", "r", "m", "a", "n", "c", "e">>],
    [code |-> <<"M", "T", "3", "2", "3">>, category |-> <<"M", "a", "n", "u", "f", "a", "c", "t", "u", "r", "i", "n", "g">>,
     name |-> <<"M", "o", "d", "e", "l", " ", "3", " ", "L", "o", "n", "g", " ", "R", "a", "n", "g", "e", " ", "A", "W", "D", " ", "(", "r", "e", "f", "r", "e", "s", "h", ")">>],
    [code |-> <<"M", "T", "3", "5", "3">>, category |-> <<"M", "a", "n", "u", "f", "a", "c", "t", "u", "r", "i", "n", "g">>,
     name |-> <<"M", "o", "d", "e", "l", " ", "3", " ", "P", "e", "r", "f", "o", "r", "m", "a", "n", "c", "e", " ", "H", "i", "g", "h", "l", "a", "n", "d">>],
    [code |-> <<"A", "D", "P", "X", "0">>, category |-> <<"D", "r", "i", "v", "e">>,
     name |-> <<"R", "e", "a", "r", "-", "w", "h", "e", "e", "l", " ", "d", "r", "i", "v", "e", " ", "s", "i", "n", "g", "l", "e", " ", "m", "o", "t", "o", "r">>],
    [code |-> <<"A", "D", "P", "X", "1">>, category |-> <<"D", "r", "i", "v", "e">>,
     name |-> <<"L", "o", "n", "g", " ", "R", "a", "n", "g", "e", " ", "d", "u", "a", "l", " ", "m", "o", "t", "o", "r">>],
    [code |-> <<"A", "D", "P", "X", "2">>, category |-> <<"D", "r", "i", "v", "e">>,
     name |-> <<"P", "e", "r", "f", "o", "r", "m", "a", "n", "c", "e", " ", "d", "u", "a", "l", " ", "m", "o", "t", "o", "r">>],
    [code |-> <<"D", "U", "A", "L", "M", "O", "T", "O", "R">>, category |-> <<"D", "r", "i", "v", "e">>,
     name |-> <<"D", "u", "a", "l", " ", "M", "o", "t", "o", "r", " ", "A", "W", "D", " ", "b", "a", "d", "g", "i", "n", "g">>],
    [code |-> <<"D", "V", "4", "W">>, category |-> <<"D", "r", "i", "v", "e">>,
     name |-> <<"D", "u", "a", "l", " ", "m", "o", "t", "o", "r", " ", "a", "l", "l", "-", "w", "h", "e", "e", "l", " ", "d", "r", "i", "v", "e">>],
    [code |-> <<"P", "3", "W", "S">>, category |-> <<"P", "e", "r", "f", "o", "r", "m", "a", "n", "c", "e">>,
     name |-> <<"P", "e", "r", "f", "o", "r", "m", "a", "n", "c", "e", " ", "U", "p", "g", "r", "a", "d", "e", " ", "P", "a", "c", "k", "a", "g", "e">>],
    [code |-> <<"M", "T", "3", "2", "2">>, category |-> <<"M", "a", "n", "u", "f", "a", "c", "t", "u", "r", "i", "n", "g">>,
     name |-> <<"M", "o", "d", "e", "l", " ", "y", "e", "a", "r", " ", "2", "0", "2", "2", " ", "Q", "2", " ", "b", "u", "i", "l", "d">>],
    [code |-> <<"M", "T", "3", "3", "7">>, category |-> <<"M", "a", "n", "u", "f", "a", "c", "t", "u", "r", "i", "n", "g">>,
     name |-> <<"M", "o", "d", "e", "l", " ", "y", "e", "a", "r", " ", "2", "0", "2", "3", " ", "Q", "4", " ", "b", "u", "i", "l", "d">>],
    [code |-> <<"M", "T", "Y", "0", "1">>, category |-> <<"M", "a", "n", "u", "f", "a", "c", "t", "u", "r", "i", "n", "g">>,
     name |-> <<"M", "o", "d", "e", "l", " ", "Y", " ", "S", "t", "a", "n", "d", "a", "r", "d", " ", "R", "a", "n", "g", "e", " ", "R", "W", "D">>],
    [code |-> <<"M", "T", "Y", "0", "2">>, category |-> <<"M", "a", "n", "u", "f", "a", "c", "t", "u", "r", "i", "n", "g">>,
     name |-> <<"M", "o", "d", "e", "l", " ", "Y", " ", "L", "o", "n", "g", " ", "R", "a", "n", "g", "e", " ", "R", "W", "D">>],
    [code |-> <<"M", "T", "Y", "0", "3">>, category |-> <<"M", "a", "n", "u", "f", "a", "c", "t", "u", "r", "i", "n", "g">>,
     name |-> <<"M", "o", "d", "e", "l", " ", "Y", " ", "L", "o", "n", "g", " ", "R", "a", "n", "g", "e", " ", "A", "W", "D">>],
    [code |-> <<"M", "T", "Y", "0", "4">>, category |-> <<"M", "a", "n", "u", "f", "a", "c", "t", "u", "r", "i", "n", "g">>,
     name |-> <<"M", "o", "d", "e", "l", " ", "Y", " ", "P", "e", "r", "f", "o", "r", "m", "a", "n", "c", "e", " ", "A", "W", "D">>],
    [code |-> <<"M", "T", "Y", "0", "5">>, category |-> <<"M", "a", "n", "u", "f", "a", "c", "t", "u", "r", "i", "n", "g">>,
     name |-> <<"M", "o", "d", "e", "l", " ", "Y", " ", "P", "e", "r", "f", "o", "r", "m", "a", "n", "c", "e">>],
    [code |-> <<"M", "T", "Y", "4", "7">>, category |-> <<"M", "a", "n", "u", "f", "a", "c", "t", "u", "r", "i", "n", "g">>,
     name |-> <<"M", "o", "d", "e", "l", " ", "Y", " ", "L", "R", " ", "A", "W", "D", " ", "(", "L", "G", " ", "5", "L", " ", "p", "a", "c", "k", ")">>],
    [code |-> <<"M", "T", "Y", "6", "2">>, category |-> <<"M", "a", "n", "u", "f", "a", "c", "t", "u", "r", "i", "n", "g">>,
     name |-> <<"M", "o", "d", "e", "l", " ", "Y", " ", "L", "R", " ", "A", "W", "D", " ", "(", "L", "G", " ", "5", "M", " ", "p", "a", "c", "k", ")">>],
    [code |-> <<"T", "M", "0", "0">>, category |-> <<"T", "o", "w", "i", "n", "g">>,
     name |-> <<"T", "o", "w", "i", "n", "g", " ", "p", "a", "c", "k", "a", "g", "e", " ", "d", "e", "l", "e", "t", "e", "d">>],
    [code |-> <<"T", "O", "W", "1">>, category |-> <<"T", "o", "w", "i", "n", "g">>,
     name |-> <<"F", "a", "c", "t", "o", "r", "y", " ", "t", "o", "w", " ", "p", "a", "c", "k", "a", "g", "e">>],
    [code |-> <<"B", "T", "3", "7">>, category |-> <<"B", "a", "t", "t", "e", "r", "y">>,
     name |-> <<"L", "o", "n", "g", " ", "R", "a", "n", "g", "e", " ", "b", "a", "t", "t", "e", "r", "y", " ", "p", "a", "c", "k">>],
    [code |-> <<"B", "T", "3", "8">>, category |-> <<"B", "a", "t", "t", "e", "r", "y">>,
     name |-> <<"S", "t", "a", "n", "d", "a", "r", "d", " ", "R", "a", "n", "g", "e", " ", "b", "a", "t", "t", "e", "r", "y", " ", "p", "a", "c", "k">>],
    [code |-> <<"B", "T", "4", "2">>, category |-> <<"B", "a", "t", "t", "e", "r", "y">>,
     name |-> <<"4", "6", "8", "0", " ", "s", "t", "r", "u", "c", "t", "u", "r", "a", "l", " ", "b", "a", "t", "t", "e", "r", "y", " ", "p", "a", "c", "k">>],
    [code |-> <<"B", "P", "0", "0">>, category |-> <<"B", "a", "t", "t", "e", "r", "y">>,
     name |-> <<"N", "o", " ", "L", "u", "d", "i", "c", "r", "o", "u", "s", " ", "u", "p", "g", "r", "a", "d", "e">>],
    [code |-> <<"P", "P", "S", "W">>, category |-> <<"P", "a", "i", "n", "t">>,
     name |-> <<"P", "e", "a", "r", "l", " ", "W", "h", "i", "t", "e", " ", "M", "u", "l", "t", "i", "-", "C", "o", "a", "t", " ", "p", "a", "i", "n", "t">>],
    [code |-> <<"P", "P", "M", "R">>, category |-> <<"P", "a", "i", "n", "t">>,
     name |-> <<"R", "e", "d", " ", "M", "u", "l", "t", "i", "-", "C", "o", "a", "t", " ", "p", "a", "i", "n", "t">>],
    [code |-> <<"P", "M", "N", "G">>, category |-> <<"P", "a", "i", "n", "t">>,
     name |-> <<"M", "i", "d", "n", "i", "g", "h", "t", " ", "S", "i", "l", "v", "e", "r", " ", "M", "e", "t", "a", "l", "l", "i", "c", " ", "p", "a", "i", "n", "t">>],
    [code |-> <<"P", "P", "S", "B">>, category |-> <<"P", "a", "i", "n", "t">>,
     name |-> <<"D", "e", "e", "p", " ", "B", "l", "u", "e", " ", "M", "e", "t", "a", "l", "l", "i", "c", " ", "p", "a", "i", "n", "t">>],
    [code |-> <<"P", "M", "B", "L">>, category |-> <<"P", "a", "i", "n", "t">>,
     name |-> <<"O", "b", "s", "i", "d", "i", "a", "n", " ", "B", "l", "a", "c", "k", " ", "M", "e", "t", "a", "l", "l", "i", "c", " ", "p", "a", "i", "n", "t">>],
    [code |-> <<"P", "M", "T", "L">>, category |-> <<"P", "a", "i", "n", "t">>,
     name |-> <<"T", "i", "t", "a", "n", "i", "u", "m", " ", "M", "e", "t", "a", "l", "l", "i", "c", " ", "p", "a", "i", "n", "t">>],
    [code |-> <<"P", "B", "C", "W">>, category |-> <<"P", "a", "i", "n", "t">>,
     name |-> <<"S", "o", "l", "i", "d", " ", "B", "l", "a", "c", "k", " ", "p", "a", "i", "n", "t">>],
    [code |-> <<"P", "B", "0", "2">>, category |-> <<"P", "a", "i", "n", "t">>,
     name |-> <<"M", "a", "r", "i", "n", "e", " ", "B", "l", "u", "e">>],
    [code |-> <<"W", "T", "A", "S">>, category |-> <<"W", "h", "e", "e", "l", "s">>,
     name |-> <<"1", "9", "\"", " ", "S", "p", "o", "r", "t", " ", "W", "h", "e", "e", "l", "s">>],
    [code |-> <<"W", "3", "8", "B">>, category |-> <<"W", "h", "e", "e", "l", "s">>,
     name |-> <<"1", "8", "\"", " ", "A", "e", "r", "o", " ", "W", "h", "e", "e", "l", "s">>],
    [code |-> <<"W", "3", "9", "B">>, category |-> <<"W", "h", "e", "e", "l", "s">>,
     name |-> <<"1", "9", "\"", " ", "S", "p", "o", "r", "t", " ", "W", "h", "e", "e", "l", "s">>],
    [code |-> <<"W", "4", "0", "B">>, category |-> <<"W", "h", "e", "e", "l", "s">>,
     name |-> <<"2", "0", "\"", " ", "I", "n", "d", "u", "c", "t", "i", "o", "n", " ", "W", "h", "e", "e", "l", "s">>],
    [code |-> <<"W", "4", "1", "B">>, category |-> <<"W", "h", "e", "e", "l", "s">>,
     name |-> <<"2", "0", "\"", " ", "G", "e", "m", "i", "n", "i", " ", "W", "h", "e", "e", "l", "s">>],
    [code |-> <<"W", "T", "U", "R">>, category |-> <<"W", "h", "e", "e", "l", "s">>,
     name |-> <<"2", "1", "\"", " ", "Ã", "oe", "b", "e", "r", "t", "u", "r", "b", "i", "n", "e", " ", "W", "h", "e", "e", "l", "s">>],
    [code |-> <<"W", "Y", "1", "9", "P">>, category |-> <<"W", "h", "e", "e", "l", "s">>,
     name |-> <<"1", "9", "\"", " ", "C", "r", "o", "s", "s", "f", "l", "o", "w", " ", "W", "h", "e", "e", "l", "s">>],
    [code |-> <<"S", "T", "3", "3">>, category |-> <<"S", "u", "s", "p", "e", "n", "s", "i", "o", "n">>,
     name |-> <<"A", "l", "l", "-", "s", "e", "a", "s", "o", "n", " ", "t", "i", "r", "e", "s">>],
    [code |-> <<"S", "U", "3", "C">>, category |-> <<"S", "u", "s", "p", "e", "n", "s", "i", "o", "n">>,
     name |-> <<"C", "o", "i", "l", " ", "s", "u", "s", "p", "e", "n", "s", "i", "o", "n", " ", "s", "e", "t", "u", "p">>],
    [code |-> <<"I", "N", "3", "P", "B">>, category |-> <<"I", "n", "t", "e", "r", "i", "o", "r">>,
     name |-> <<"P", "r", "e", "m", "i", "u", "m", " ", "a", "l", "l", "-", "b", "l", "a", "c", "k", " ", "i", "n", "t", "e", "r", "i", "o", "r">>],
    [code |-> <<"I", "N", "3", "P", "W">>, category |-> <<"I", "n", "t", "e", "r", "i", "o", "r">>,
     name |-> <<"P", "r", "e", "m", "i", "u", "m", " ", "b", "l", "a", "c", "k", " ", "&", " ", "w", "h", "i", "t", "e", " ", "i", "n", "t", "e", "r", "i", "o", "r">>],
    [code |-> <<"I", "N", "Y", "P", "B">>, category |-> <<"I", "n", "t", "e", "r", "i", "o", "r">>,
     name |-> <<"M", "o", "d", "e", "l", " ", "Y", " ", "b", "l", "a", "c", "k", " ", "i", "n", "t", "e", "r", "i", "o", "r">>],
    [code |-> <<"I", "N", "Y", "P", "W">>, category |-> <<"I", "n", "t", "e", "r", "i", "o", "r">>,
     name |-> <<"M", "o", "d", "e", "l", " ", "Y", " ", "b", "l", "a", "c", "k", " ", "&", " ", "w", "h", "i", "t", "e", " ", "i", "n", "t", "e", "r", "i", "o", "r">>],
    [code |-> <<"I", "P", "B", "8">>, category |-> <<"I", "n", "t", "e", "r", "i", "o", "r">>,
     name |-> <<"P", "r", "e", "m", "i", "u", "m", " ", "a", "l", "l", "-", "b", "l", "a", "c", "k", " ", "i", "n", "t", "e", "r", "i", "o", "r">>],
    [code |-> <<"I", "L", "3", "1">>, category |-> <<"I", "n", "t", "e", "r", "i", "o", "r">>,
     name |-> <<"I", "n", "t", "e", "r", "i", "o", "r", " ", "a", "m", "b", "i", "e", "n", "t", " ", "l", "i", "g", "h", "t", "i", "n", "g">>],
    [code |-> <<"A", "U", "3", "P">>, category |-> <<"I", "n", "t", "e", "r", "i", "o", "r">>,
     name |-> <<"P", "r", "e", "m", "i", "u", "m", " ", "a", "u", "d", "i", "o", " ", "s", "y", "s", "t", "e", "m">>],
    [code |-> <<"A", "F", "0", "2">>, category |-> <<"I", "n", "t", "e", "r", "i", "o", "r">>,
     name |-> <<"S", "u", "b", "z", "e", "r", "o", " ", "w", "e", "a", "t", "h", "e", "r", " ", "/", " ", "h", "e", "a", "t", "e", "d", " ", "c", "o", "m", "p", "o", "n", "e", "n", "t", "s">>],
    [code |-> <<"S", "T", "0", "1">>, category |-> <<"S", "e", "a", "t", "i", "n", "g">>,
     name |-> <<"F", "r", "o", "n", "t", " ", "h", "e", "a", "t", "e", "d", " ", "s", "e", "a", "t", "s">>],
    [code |-> <<"R", "S", "F", "1">>, category |-> <<"S", "e", "a", "t", "i", "n", "g">>,
     name |-> <<"R", "e", "a", "r", " ", "h", "e", "a", "t", "e", "d", " ", "s", "e", "a", "t", "s">>],
    [code |-> <<"R", "S", "F", "2">>, category |-> <<"S", "e", "a", "t", "i", "n", "g">>,
     name |-> <<"S", "e", "c", "o", "n", "d", " ", "r", "o", "w", " ", "s", "e", "a", "t", " ", "h", "e", "a", "t", "e", "r", "s">>],
    [code |-> <<"S", "T", "Y", "5", "S">>, category |-> <<"S", "e", "a", "t", "i", "n", "g">>,
     name |-> <<"M", "Y", " ", "5", " ", "S", "e", "a", "t", " ", "I", "n", "t", "e", "r", "i", "o", "r">>],
    [code |-> <<"A", "P", "B", "S">>, category |-> <<"S", "o", "f", "t", "w", "a", "r", "e">>,
     name |-> <<"B", "a", "s", "i", "c", " ", "A", "u", "t", "o", "p", "i", "l", "o", "t">>],
    [code |-> <<"A", "P", "F", "0">>, category |-> <<"S", "o", "f", "t", "w", "a", "r", "e">>,
     name |-> <<"A", "u", "t", "o", "p", "i", "l", "o", "t", " ", "h", "a", "r", "d", "w", "a", "r", "e", " ", "w", "i", "t", "h", " ", "n", "o", " ", "f", "e", "a", "t", "u", "r", "e", "s">>],
    [code |-> <<"A", "P", "F", "1">>, category |-> <<"S", "o", "f", "t", "w", "a", "r", "e">>,
     name |-> <<"A", "u", "t", "o", "p", "i", "l", "o", "t", " ", "c", "o", "n", "v", "e", "n", "i", "e", "n", "c", "e", " ", "f", "e", "a", "t", "u", "r", "e", "s">>],
    [code |-> <<"A", "P", "F", "2">>, category |-> <<"S", "o", "f", "t", "w", "a", "r", "e">>,
     name |-> <<"E", "n", "h", "a", "n", "c", "e", "d", " ", "A", "u", "t", "o", "p", "i", "l", "o", "t">>],
    [code |-> <<"A", "P", "F", "3">>, category |-> <<"S", "o", "f", "t", "w", "a", "r", "e">>,
     name |-> <<"F", "u", "l", "l", " ", "S", "e", "l", "f", "-", "D", "r", "i", "v", "i", "n", "g", " ", "c", "o", "m", "p", "u", "t", "e", "r", " ", "(", "H", "W", "3", ")">>],
    [code |-> <<"A", "P", "P", "B">>, category |-> <<"S", "o", "f", "t", "w", "a", "r", "e">>,
     name |-> <<"F", "u", "l", "l", " ", "S", "e", "l", "f", "-", "D", "r", "i", "v", "i", "n", "g", " ", "c", "a", "p", "a", "b", "i", "l", "i", "t", "y">>],
    [code |-> <<"A", "C", "C", "1">>, category |-> <<"C", "o", "n", "n", "e", "c", "t", "i", "v", "i", "t", "y">>,
     name |-> <<"P", "r", "e", "m", "i", "u", "m", " ", "c", "o", "n", "n", "e", "c", "t", "i", "v", "i", "t", "y">>],
    [code |-> <<"C", "P", "F", "0">>, category |-> <<"C", "o", "n", "n", "e", "c", "t", "i", "v", "i", "t", "y">>,
     name |-> <<"P", "r", "e", "m", "i", "u", "m", " ", "c", "o", "n", "n", "e", "c", "t", "i", "v", "i", "t", "y", " ", "(", "t", "r", "i", "a", "l", ")">>],
    [code |-> <<"C", "P", "F", "1">>, category |-> <<"C", "o", "n", "n", "e", "c", "t", "i", "v", "i", "t", "y">>,
     name |-> <<"P", "r", "e", "m", "i", "u", "m", " ", "c", "o", "n", "n", "e", "c", "t", "i", "v", "i", "t", "y", " ", "(", "1", " ", "y", "e", "a", "r", " ", "i", "n", "c", "l", "u", "d", "e", "d", ")">>],
    [code |-> <<"S", "C", "0", "4">>, category |-> <<"C", "h", "a", "r", "g", "i", "n", "g">>,
     name |-> <<"P", "a", "y", "-", "a", "s", "-", "y", "o", "u", "-", "g", "o", " ", "S", "u", "p", "e", "r", "c", "h", "a", "r", "g", "i", "n", "g">>],
    [code |-> <<"S", "C", "0", "5">>, category |-> <<"C", "h", "a", "r", "g", "i", "n", "g">>,
     name |-> <<"F", "r", "e", "e", " ", "u", "n", "l", "i", "m", "i", "t", "e", "d", " ", "S", "u", "p", "e", "r", "c", "h", "a", "r", "g", "i", "n", "g">>],
    [code |-> <<"F", "R", "0", "4">>, category |-> <<"H", "a", "r", "d", "w", "a", "r", "e">>,
     name |-> <<"H", "E", "P", "A", " ", "f", "i", "l", "t", "e", "r", " ", "&", " ", "B", "i", "o", "w", "e", "a", "p", "o", "n", " ", "D", "e", "f", "e", "n", "s", "e", " ", "M", "o", "d", "e">>],
    [code |-> <<"H", "M", "3", "1">>, category |-> <<"H", "a", "r", "d", "w", "a", "r", "e">>,
     name |-> <<"P", "o", "w", "e", "r", " ", "f", "o", "l", "d", "i", "n", "g", ",", " ", "h", "e", "a", "t", "e", "d", " ", "s", "i", "d", "e", " ", "m", "i", "r", "r", "o", "r", "s">>],
    [code |-> <<"H", "L", "3", "2">>, category |-> <<"H", "a", "r", "d", "w", "a", "r", "e">>,
     name |-> <<"M", "a", "t", "r", "i", "x", " ", "L", "E", "D", " ", "h", "e", "a", "d", "l", "i", "g", "h", "t", "s">>],
    [code |-> <<"P", "I", "0", "1">>, category |-> <<"H", "a", "r", "d", "w", "a", "r", "e">>,
     name |-> <<"P", "r", "e", "m", "i", "u", "m", " ", "a", "u", "d", "i", "o", " ", "a", "m", "p", "l", "i", "f", "i", "e", "r">>],
    [code |-> <<"D", "R", "L", "H">>, category |-> <<"H", "a", "r", "d", "w", "a", "r", "e">>,
     name |-> <<"L", "e", "f", "t", "-", "h", "a", "n", "d", " ", "d", "r", "i", "v", "e", " ", "c", "o", "n", "f", "i", "g", "u", "r", "a", "t", "i", "o", "n">>],
    [code |-> <<"D", "R", "R", "H">>, category |-> <<"H", "a", "r", "d", "w", "a", "r", "e">>,
     name |-> <<"R", "i", "g", "h", "t", "-", "h", "a", "n", "d", " ", "d", "r", "i", "v", "e", " ", "c", "o", "n", "f", "i", "g", "u", "r", "a", "t", "i", "o", "n">>],
    [code |-> <<"O", "P", "P", "F">>, category |-> <<"P", "r", "o", "t", "e", "c", "t", "i", "o", "n">>,
     name |-> <<"F", "a", "c", "t", "o", "r", "y", " ", "p", "a", "i", "n", "t", " ", "p", "r", "o", "t", "e", "c", "t", "i", "o", "n", " ", "f", "i", "l", "m">>],
    [code |-> <<"B", "C", "3", "R">>, category |-> <<"H", "a", "r", "d", "w", "a", "r", "e">>,
     name |-> <<"P", "e", "r", "f", "o", "r", "m", "a", "n", "c", "e", " ", "r", "e", "d", " ", "b", "r", "a", "k", "e", " ", "c", "a", "l", "i", "p", "e", "r", "s">>]}

\* OPTION_HINT_RULES in order; `starts` are the alternatives of the
\* pattern, `digit` tells that a digit has to follow (W\d+)
OPTION_HINT_RULES ==
    <<[starts |-> {<<"P", "P">>, <<"P", "M">>, <<"P", "B", "C">>, <<"P", "R", "S">>, <<"P", "B", "S">>}, digit |-> FALSE,
       label |-> <<"P", "a", "i", "n", "t">>, description |-> <<"E", "x", "t", "e", "r", "i", "o", "r", " ", "p", "a", "i", "n", "t", " ", "o", "p", "t", "i", "o", "n">>],
      [starts |-> {<<"W">>}, digit |-> TRUE,
       label |-> <<"W", "h", "e", "e", "l", "s">>, description |-> <<"W", "h", "e", "e", "l", " ", "p", "a", "c", "k", "a", "g", "e">>],
      [starts |-> {<<"I", "N">>}, digit |-> FALSE,
       label |-> <<"I", "n", "t", "e", "r", "i", "o", "r">>, description |-> <<"I", "n", "t", "e", "r", "i", "o", "r", " ", "t", "r", "i", "m", " ", "o", "r", " ", "m", "a", "t", "e", "r", "i", "a", "l">>],
      [starts |-> {<<"A", "P">>, <<"F", "S">>, <<"F", "S", "D">>, <<"E", "A", "P">>}, digit |-> FALSE,
       label |-> <<"S", "o", "f", "t", "w", "a", "r", "e">>, description |-> <<"A", "u", "t", "o", "p", "i", "l", "o", "t", " ", "o", "r", " ", "s", "o", "f", "t", "w", "a", "r", "e", " ", "p", "a", "c", "k", "a", "g", "e">>],
      [starts |-> {<<"S", "C">>}, digit |-> FALSE,
       label |-> <<"C", "h", "a", "r", "g", "i", "n", "g">>, description |-> <<"S", "u", "p", "e", "r", "c", "h", "a", "r", "g", "i", "n", "g", " ", "c", "o", "n", "f", "i", "g">>],
      [starts |-> {<<"M", "D", "L">>, <<"M", "D", "Y">>, <<"M", "D", "X">>}, digit |-> FALSE,
       label |-> <<"V", "e", "h", "i", "c", "l", "e">>, description |-> <<"M", "o", "d", "e", "l", " ", "d", "e", "s", "i", "g", "n", "a", "t", "i", "o", "n">>],
      [starts |-> {<<"B", "T">>}, digit |-> FALSE,
       label |-> <<"B", "a", "t", "t", "e", "r", "y">>, description |-> <<"B", "a", "t", "t", "e", "r", "y", " ", "c", "o", "n", "f", "i", "g", "u", "r", "a", "t", "i", "o", "n">>],
      [starts |-> {<<"S", "T">>, <<"R", "S">>}, digit |-> FALSE,
       label |-> <<"S", "e", "a", "t", "i", "n", "g">>, description |-> <<"S", "e", "a", "t", " ", "o", "r", " ", "i", "n", "t", "e", "r", "i", "o", "r", " ", "c", "o", "m", "f", "o", "r", "t">>],
      [starts |-> {<<"H", "P">>, <<"D", "U">>, <<"M", "T">>}, digit |-> FALSE,
       label |-> <<"P", "e", "r", "f", "o", "r", "m", "a", "n", "c", "e">>, description |-> <<"D", "r", "i", "v", "e", "-", "u", "n", "i", "t", " ", "o", "r", " ", "p", "e", "r", "f", "o", "r", "m", "a", "n", "c", "e", " ", "u", "p", "g", "r", "a", "d", "e">>],
      [starts |-> {<<"P", "K">>, <<"P", "R", "M">>}, digit |-> FALSE,
       label |-> <<"P", "a", "c", "k", "a", "g", "e">>, description |-> <<"E", "q", "u", "i", "p", "m", "e", "n", "t", " ", "p", "a", "c", "k", "a", "g", "e">>],
      [starts |-> {<<"H", "M">>, <<"F", "R">>, <<"H", "L">>, <<"F", "G">>}, digit |-> FALSE,
       label |-> <<"H", "a", "r", "d", "w", "a", "r", "e">>, description |-> <<"H", "a", "r", "d", "w", "a", "r", "e", " ", "f", "e", "a", "t", "u", "r", "e">>]>>

\* pattern.match(code) for one rule
HintRuleMatches(rule, code) ==
    \E p \in rule.starts :
        /\ StartsWith(code, p)
        /\ rule.digit => (Len(code) > Len(p) /\ IsDigit(code[Len(p) + 1]))

\* _infer_option_hint(code): <<label, description>> of the first rule that
\* matches
_infer_option_hint(code) ==
    IF code = <<>> THEN <<<<"O", "p", "t", "i", "o", "n">>, <<"U", "n", "r", "e", "c", "o", "g", "n", "i", "z", "e", "d", " ", "o", "p", "t", "i", "o", "n">>>>
    ELSE IF \E i \in DOMAIN OPTION_HINT_RULES : HintRuleMatches(OPTION_HINT_RULES[i], code)
    THEN LET i == CHOOSE k \in DOMAIN OPTION_HINT_RULES :
                      /\ HintRuleMatches(OPTION_HINT_RULES[k], code)
                      /\ \A j \in 1..(k - 1) : ~HintRuleMatches(OPTION_HINT_RULES[j], code)
         IN <<OPTION_HINT_RULES[i].label, OPTION_HINT_RULES[i].description>>
    ELSE <<<<"O", "p", "t", "i", "o", "n">>, <<"C", "u", "s", "t", "o", "m", " ", "c", "o", "n", "f", "i", "g", "u", "r", "a", "t", "i", "o", "n">>>>

\* [str(code).strip().upper() for code in items if code]
CodesOfList(items) ==
    LET kept == SelectSeq(items, LAMBDA c : Truthy(c))
    IN [i \in DOMAIN kept |-> Upper(Strip(PyStr(kept[i])))]

\* the local `codes` of describe_market_options: the candidates of the
\* blob, stripped and upper-cased
OptionCodesOf(option_blob) ==
    CASE option_blob.t = "str" ->
             LET pieces == SelectSeq(SplitRuns(option_blob.s, {",", ";", "|"} \cup Whitespace),
                                     LAMBDA code : Strip(code) # <<>>)
             IN [i \in DOMAIN pieces |-> Upper(Strip(pieces[i]))]
      [] option_blob.t = "list" -> CodesOfList(option_blob.l)
      [] option_blob.t = "map" ->
             LET possible == Or(Or(Get(option_blob, "optionCodes"), Get(option_blob, "options")),
                                Get(option_blob, "codes"))
                 texts == SelectSeq(DictValues(option_blob), LAMBDA value : value.t = "str")
             IN IF possible.t = "list" THEN CodesOfList(possible.l)
                ELSE [i \in DOMAIN texts |-> Upper(Strip(texts[i].s))]
      [] OTHER -> <<>>

\* MARKET_OPTION_CATALOG.get(code) is not None
InCatalog(code) == \E info \in MARKET_OPTION_CATALOG : info.code = code

\* the entry appended to grouped[category] for a catalog code: the name,
\* with the code in parentheses unless the name holds it
CatalogEntry(code) ==
    LET info == CHOOSE e \in MARKET_OPTION_CATALOG : e.code = code
    IN [category |-> info.category,
        entry |-> IF Contains(info.name, code) THEN info.name
                  ELSE info.name \o <<" ", "(">> \o code \o <<")">>]

\* the categories kept in the order of their first code
GroupedItems_CodeOrder(entries) ==
    LET categories == Dedup([i \in DOMAIN entries |-> entries[i].category])
    IN [k \in DOMAIN categories |->
           LET values == SelectSeq(entries, LAMBDA e : e.category = categories[k])
           IN [label |-> categories[k] \o <<" ", "O", "p", "t", "i", "o", "n", "s">>,
               value |-> Join(Dedup([i \in DOMAIN values |-> values[i].entry]), <<",", " ">>)]]

\* the items of the known codes: one per category in sorted order
GroupedItems(entries) ==
    LET categories == SortedTexts({entries[i].category : i \in DOMAIN entries})
    IN [k \in DOMAIN categories |->
           LET values == SelectSeq(entries, LAMBDA e : e.category = categories[k])
           IN [label |-> categories[k] \o <<" ", "O", "p", "t", "i", "o", "n", "s">>,
               value |-> Join(Dedup([i \in DOMAIN values |-> values[i].entry]), <<",", " ">>)]]

\* the items of the unknown codes: one per distinct code in sorted order
UnknownItems(unknown) ==
    LET sorted == SortedTexts({unknown[i] : i \in DOMAIN unknown})
    IN [k \in DOMAIN sorted |->
           [label |-> _infer_option_hint(sorted[k])[1],
            value |-> _infer_option_hint(sorted[k])[2] \o <<" ", "(">> \o sorted[k] \o <<")">>]]

\* the items built from `codes`
ItemsOfCodes(codes) ==
    LET known == SelectSeq(codes, InCatalog)
        unknown == SelectSeq(codes, LAMBDA code : ~InCatalog(code))
    IN GroupedItems([i \in DOMAIN known |-> CatalogEntry(known[i])])
           \o UnknownItems(unknown)

\* describe_market_options(option_blob)
describe_market_options(option_blob) ==
    IF ~Truthy(option_blob) THEN <<>>
    ELSE ItemsOfCodes(OptionCodesOf(option_blob))

\* the characters OPTION_CODE_SPLITTER, re.compile(r"[,;|\\s]+"), splits
\* at: in the class, \\ is the backslash and s is the letter s
OPTION_CODE_SPLITTER == {",", ";", "|", "\\", "s"}

\* _normalize_option_code(value); None is JNull
_normalize_option_code(value) ==
    IF IsNoneOrEmpty(value) THEN JNull
    ELSE LET text == Upper(Strip(PyStr(value)))
         IN IF text = <<>> THEN JNull
            ELSE IF text[1] = "$"
            THEN (IF Len(text) = 1 THEN JNull ELSE JStr(Tail(text)))
            ELSE JStr(text)

\* _split_option_codes(blob): the normalized candidates that are not empty
_split_option_codes(blob) ==
    LET candidates ==
            CASE blob.t = "str" ->
                     LET pieces == SplitRuns(blob.s, OPTION_CODE_SPLITTER)
                     IN [i \in DOMAIN pieces |-> JStr(pieces[i])]
              [] blob.t = "list" -> blob.l
              [] blob.t = "map" -> DictValues(blob)
              [] OTHER -> <<>>
        normalized == [i \in DOMAIN candidates |-> _normalize_option_code(candidates[i])]
        codes == SelectSeq(normalized, LAMBDA n : n # JNull)
    IN IF ~Truthy(blob) THEN <<>>
       ELSE [i \in DOMAIN codes |-> codes[i].s]

\* ------------------------------------------------------------------------
\* _extract_delivery_blockers
\* ------------------------------------------------------------------------
\* DELIVERY_GATE_DESCRIPTIONS, as <<code, label>> pairs
DELIVERY_GATE_DESCRIPTIONS ==
    {<<<<"B", "E", "F", "O", "R", "E", "_", "D", "E", "L", "I", "V", "E", "R", "Y">>, <<"B", "e", "f", "o", "r", "e", "-", "d", "e", "l", "i", "v", "e", "r", "y", " ", "r", "e", "a", "d", "i", "n", "e", "s", "s">>>>,
     <<<<"A", "T", "_", "D", "E", "L", "I", "V", "E", "R", "Y">>, <<"D", "e", "l", "i", "v", "e", "r", "y", "-", "d", "a", "y", " ", "h", "a", "n", "d", "o", "f", "f">>>>,
     <<<<"A", "F", "T", "E", "R", "_", "D", "E", "L", "I", "V", "E", "R", "Y">>, <<"P", "o", "s", "t", "-", "d", "e", "l", "i", "v", "e", "r", "y", " ", "f", "o", "l", "l", "o", "w", "-", "u", "p">>>>,
     <<<<"B", "E", "F", "O", "R", "E", "_", "D", "E", "L", "I", "V", "E", "R", "Y", "_", "F", "I", "N", "A", "N", "C", "E">>, <<"F", "i", "n", "a", "n", "c", "e", " ", "c", "l", "e", "a", "r", "a", "n", "c", "e", " ", "b", "e", "f", "o", "r", "e", " ", "d", "e", "l", "i", "v", "e", "r", "y">>>>,
     <<<<"B", "E", "F", "O", "R", "E", "_", "D", "E", "L", "I", "V", "E", "R", "Y", "_", "D", "O", "C", "U", "M", "E", "N", "T", "S">>, <<"P", "a", "p", "e", "r", "w", "o", "r", "k", " ", "b", "e", "f", "o", "r", "e", " ", "d", "e", "l", "i", "v", "e", "r", "y">>>>,
     <<<<"B", "E", "F", "O", "R", "E", "_", "D", "E", "L", "I", "V", "E", "R", "Y", "_", "V", "E", "H", "I", "C", "L", "E">>, <<"V", "e", "h", "i", "c", "l", "e", " ", "p", "r", "e", "p", " ", "b", "e", "f", "o", "r", "e", " ", "d", "e", "l", "i", "v", "e", "r", "y">>>>}

\* DELIVERY_TIMING_DESCRIPTIONS, as <<code, label>> pairs
DELIVERY_TIMING_DESCRIPTIONS ==
    {<<<<"B", "E", "F", "O", "R", "E", "_", "D", "E", "L", "I", "V", "E", "R", "Y">>, <<"B", "e", "f", "o", "r", "e", " ", "d", "e", "l", "i", "v", "e", "r", "y">>>>,
     <<<<"A", "T", "_", "D", "E", "L", "I", "V", "E", "R", "Y">>, <<"D", "u", "r", "i", "n", "g", " ", "d", "e", "l", "i", "v", "e", "r", "y">>>>,
     <<<<"A", "F", "T", "E", "R", "_", "D", "E", "L", "I", "V", "E", "R", "Y">>, <<"A", "f", "t", "e", "r", " ", "d", "e", "l", "i", "v", "e", "r", "y">>>>,
     <<<<"P", "O", "S", "T", "_", "D", "E", "L", "I", "V", "E", "R", "Y">>, <<"P", "o", "s", "t", "-", "d", "e", "l", "i", "v", "e", "r", "y">>>>,
     <<<<"P", "R", "I", "O", "R", "_", "T", "O", "_", "A", "P", "P", "O", "I", "N", "T", "M", "E", "N", "T">>, <<"P", "r", "i", "o", "r", " ", "t", "o", " ", "a", "p", "p", "o", "i", "n", "t", "m", "e", "n", "t">>>>}

\* str(value) in place of the described value
BlockerTimeOf_Raw(value, timestamp) ==
    IF Truthy(timestamp) /\ timestamp.s # PyStr(value) THEN timestamp
    ELSE JStr(PyStr(value))

\* the tail of _format_blocker_time, for a value that is no timing code:
\* the formatted timestamp when formatting changed the text, else the
\* described value, else str(value)
BlockerTimeOf(value, timestamp) ==
    IF Truthy(timestamp) /\ timestamp.s # PyStr(value) THEN timestamp
    ELSE Or(_describe_code(value, DELIVERY_TIMING_DESCRIPTIONS), JStr(PyStr(value)))

\* _format_blocker_time(value)
_format_blocker_time(value) ==
    IF IsNoneOrEmpty(value) THEN JStr(<<"N", "/", "A">>)
    ELSE IF \E e \in DELIVERY_TIMING_DESCRIPTIONS : e[1] = Upper(PyStr(value))
    THEN JStr(LabelOfKey(Upper(PyStr(value)), DELIVERY_TIMING_DESCRIPTIONS))
    ELSE BlockerTimeOf(value, _format_timestamp(value))

\* the record appended for one gate entry that is a blocker
BlockerOf(gate) ==
    [gate |-> Or(_describe_code(GetD(gate, "gate", JStr(<<"U", "N", "K", "N", "O", "W", "N">>)),
                                DELIVERY_GATE_DESCRIPTIONS),
                 JStr(<<"U", "n", "k", "n", "o", "w", "n">>)),
     owner |-> Or(_describe_code(GetD(gate, "actionOwner", JStr(<<"U", "n", "k", "n", "o", "w", "n">>)), {}),
                  JStr(<<"U", "n", "k", "n", "o", "w", "n">>)),
     action_time |-> _format_blocker_time(Get(gate, "actionTime"))]

\* _extract_delivery_blockers(readiness): the entries of `gates` that are
\* dicts with a true isBlocker, in iteration order; the characters of a
\* str are no dicts, a number cannot be iterated
_extract_delivery_blockers(readiness) ==
    LET gates == Or(Get(readiness, "gates"), JList(<<>>))
        gate_iterable == CASE gates.t = "map" -> DictValues(gates)
                           [] gates.t = "list" -> gates.l
                           [] OTHER -> <<>>
        flagged == SelectSeq(gate_iterable,
                             LAMBDA gate : gate.t = "map" /\ Truthy(Get(gate, "isBlocker")))
    IN IF ~HasGet(readiness) THEN Raises("AttributeError")
       ELSE IF gates.t \in {"num", "bool"} THEN Raises("TypeError")
       ELSE Returns([i \in DOMAIN flagged |-> BlockerOf(flagged[i])])

\* ------------------------------------------------------------------------
\* The option panel, the trim tokenizer and the blocker list on their own
\* ------------------------------------------------------------------------
\* the calls studied: option blobs for describe_market_options and
\* _split_option_codes, readiness mappings for _extract_delivery_blockers
PanelSubjects ==
    [fn : {"mktOptions"}, value : {JStr(<<"M", "D", "L", "3", ",", "B", "T", "3", "7", ",", "P", "P", "S", "W", ",", "Z", "Z", "Z", "9", "9">>),
         JStr(<<"$", "m", "d", "l", "3">>),
         JStr(<<"M", "D", "L", "3">>),
         JStr(<<"m", "d", "l", "3">>),
         JStr(<<"$", "M", "D", "L", "3", ",", "$", "B", "T", "3", "7">>),
         JStr(<<"M", "D", "L", "3", " ", "B", "T", "3", "7">>),
         JStr(<<"M", "D", "L", "3", ";", "B", "T", "3", "7", "|", "P", "P", "S", "W">>),
         JStr(<<" ", "M", "D", "L", "3", " ", ",", " ", "B", "T", "3", "7", " ">>),
         JStr(<<"P", "P", "S", "W", ",", "P", "P", "M", "R", ",", "P", "P", "S", "W">>),
         JStr(<<"Z", "Z", "Z", "9", "9", ",", "A", "A", "A", "1", ",", "Z", "Z", "Z", "9", "9">>),
         JStr(<<"W", "9", "9", ",", "P", "P", "X", "X", ",", "I", "N", "X", ",", "F", "S", "D", "1", ",", "S", "C", "X", ",", "M", "D", "Y", "X">>),
         JStr(<<"B", "T", "X", ",", "S", "T", "X", ",", "M", "T", "X", "9", "9", ",", "P", "K", "X", ",", "H", "M", "X", ",", "R", "S", "X">>),
         JStr(<<"W", ",", "W", "X", ",", "W", "3">>),
         JStr(<<"m", "d", "l", "s">>),
         JStr(<<"W", "T", "A", "S", ",", "W", "3", "9", "B", ",", "W", "3", "8", "B">>),
         JStr(<<"A", "P", "F", "2", "\t", "A", "P", "B", "S", "\n", "S", "C", "0", "4">>),
         JStr(<<>>),
         JStr(<<",">>),
         JStr(<<"$">>),
         JStr(<<"M", "D", "L", "3", "\\", "B", "T", "3", "7">>),
         JStr(<<"$", "$", "b", "t", "3", "7">>),
         JList(<<JStr(<<"M", "D", "L", "3">>), JStr(<<"$", "b", "t", "3", "7">>)>>),
         JList(<<JStr(<<" ", " ">>), JStr(<<"Z", "Z", "Z", "9", "9">>)>>),
         JList(<<JNum(5), JNull, JStr(<<"p", "p", "s", "w">>), JStr(<<>>)>>),
         JList(<<>>),
         OrderedMap(<<<<"optionCodes", JList(<<JStr(<<"M", "D", "L", "3">>), JStr(<<"B", "T", "3", "7">>)>>)>>>>),
         OrderedMap(<<<<"options", JList(<<JStr(<<"$", "M", "D", "L", "3">>)>>)>>>>),
         OrderedMap(<<<<"codes", JList(<<JStr(<<"P", "P", "S", "W">>), JNum(7)>>)>>>>),
         OrderedMap(<<<<"a", JStr(<<"M", "D", "L", "3">>)>>, <<"b", JStr(<<"P", "P", "S", "W">>)>>, <<"c", JNum(5)>>>>),
         OrderedMap(<<<<"optionCodes", JStr(<<"M", "D", "L", "3">>)>>>>),
         OrderedMap(<<<<"a", JStr(<<>>)>>>>),
         OrderedMap(<<<<"b", JStr(<<"T", "O", "W", "1">>)>>, <<"a", JStr(<<"T", "M", "0", "0">>)>>>>),
         OrderedMap(<<<<"optionCodes", JList(<<>>)>>, <<"options", JList(<<JStr(<<"B", "T", "4", "2">>)>>)>>>>),
         JNum(5),
         JNull,
         OrderedMap(<<>>)}]
        \cup [fn : {"readiness"}, value : {OrderedMap(<<<<"gates", JList(<<OrderedMap(<<<<"gate", JStr(<<"B", "E", "F", "O", "R", "E", "_", "D", "E", "L", "I", "V", "E", "R", "Y">>)>>, <<"actionOwner", JStr(<<"T", "E", "S", "L", "A">>)>>, <<"actionTime", JStr(<<"B", "E", "F", "O", "R", "E", "_", "D", "E", "L", "I", "V", "E", "R", "Y">>)>>, <<"isBlocker", JBool(TRUE)>>>>), OrderedMap(<<<<"gate", JStr(<<"A", "T", "_", "D", "E", "L", "I", "V", "E", "R", "Y">>)>>, <<"actionOwner", JStr(<<"C", "U", "S", "T", "O", "M", "E", "R">>)>>, <<"actionTime", JStr(<<"A", "T", "_", "D", "E", "L", "I", "V", "E", "R", "Y">>)>>, <<"isBlocker", JBool(FALSE)>>>>), OrderedMap(<<<<"gate", JStr(<<"x", "_", "c", "u", "s", "t", "o", "m">>)>>, <<"actionOwner", JStr(<<"c", "u", "s", "t", "o", "m", "e", "r", "_", "c", "a", "r", "e">>)>>, <<"actionTime", JStr(<<"2", "0", "2", "4", "-", "0", "3", "-", "0", "1", "T", "1", "0", ":", "2", "0", ":", "3", "0", "Z">>)>>, <<"isBlocker", JBool(TRUE)>>>>)>>)>>>>),
         OrderedMap(<<<<"gates", OrderedMap(<<<<"g1", OrderedMap(<<<<"gate", JStr(<<"B", "E", "F", "O", "R", "E", "_", "D", "E", "L", "I", "V", "E", "R", "Y">>)>>, <<"actionOwner", JStr(<<"T", "E", "S", "L", "A">>)>>, <<"actionTime", JStr(<<"B", "E", "F", "O", "R", "E", "_", "D", "E", "L", "I", "V", "E", "R", "Y">>)>>, <<"isBlocker", JBool(TRUE)>>>>)>>, <<"g2", OrderedMap(<<<<"gate", JStr(<<"A", "T", "_", "D", "E", "L", "I", "V", "E", "R", "Y">>)>>, <<"actionOwner", JStr(<<"C", "U", "S", "T", "O", "M", "E", "R">>)>>, <<"actionTime", JStr(<<"A", "T", "_", "D", "E", "L", "I", "V", "E", "R", "Y">>)>>, <<"isBlocker", JBool(FALSE)>>>>)>>, <<"g3", OrderedMap(<<<<"gate", JStr(<<"x", "_", "c", "u", "s", "t", "o", "m">>)>>, <<"actionOwner", JStr(<<"c", "u", "s", "t", "o", "m", "e", "r", "_", "c", "a", "r", "e">>)>>, <<"actionTime", JStr(<<"2", "0", "2", "4", "-", "0", "3", "-", "0", "1", "T", "1", "0", ":", "2", "0", ":", "3", "0", "Z">>)>>, <<"isBlocker", JBool(TRUE)>>>>)>>>>)>>>>),
         OrderedMap(<<<<"gates", OrderedMap(<<<<"z", OrderedMap(<<<<"gate", JStr(<<"x", "_", "c", "u", "s", "t", "o", "m">>)>>, <<"actionOwner", JStr(<<"c", "u", "s", "t", "o", "m", "e", "r", "_", "c", "a", "r", "e">>)>>, <<"actionTime", JStr(<<"2", "0", "2", "4", "-", "0", "3", "-", "0", "1", "T", "1", "0", ":", "2", "0", ":", "3", "0", "Z">>)>>, <<"isBlocker", JBool(TRUE)>>>>)>>, <<"a", OrderedMap(<<<<"gate", JStr(<<"B", "E", "F", "O", "R", "E", "_", "D", "E", "L", "I", "V", "E", "R", "Y">>)>>, <<"actionOwner", JStr(<<"T", "E", "S", "L", "A">>)>>, <<"actionTime", JStr(<<"B", "E", "F", "O", "R", "E", "_", "D", "E", "L", "I", "V", "E", "R", "Y">>)>>, <<"isBlocker", JBool(TRUE)>>>>)>>>>)>>>>),
         OrderedMap(<<<<"gates", JList(<<OrderedMap(<<<<"gate", JStr(<<"x", "_", "c", "u", "s", "t", "o", "m">>)>>, <<"actionOwner", JStr(<<"c", "u", "s", "t", "o", "m", "e", "r", "_", "c", "a", "r", "e">>)>>, <<"actionTime", JStr(<<"2", "0", "2", "4", "-", "0", "3", "-", "0", "1", "T", "1", "0", ":", "2", "0", ":", "3", "0", "Z">>)>>, <<"isBlocker", JBool(TRUE)>>>>), OrderedMap(<<<<"gate", JStr(<<"B", "E", "F", "O", "R", "E", "_", "D", "E", "L", "I", "V", "E", "R", "Y">>)>>, <<"actionOwner", JStr(<<"T", "E", "S", "L", "A">>)>>, <<"actionTime", JStr(<<"B", "E", "F", "O", "R", "E", "_", "D", "E", "L", "I", "V", "E", "R", "Y">>)>>, <<"isBlocker", JBool(TRUE)>>>>)>>)>>>>),
         OrderedMap(<<<<"gates", JList(<<OrderedMap(<<<<"gate", JStr(<<"A", "T", "_", "D", "E", "L", "I", "V", "E", "R", "Y">>)>>, <<"actionOwner", JStr(<<"C", "U", "S", "T", "O", "M", "E", "R">>)>>, <<"actionTime", JStr(<<"A", "T", "_", "D", "E", "L", "I", "V", "E", "R", "Y">>)>>, <<"isBlocker", JBool(FALSE)>>>>)>>)>>>>),
         OrderedMap(<<<<"gates", JList(<<>>)>>>>),
         OrderedMap(<<>>),
         OrderedMap(<<<<"gates", JNull>>>>),
         OrderedMap(<<<<"gates", JStr(<<"a", "b", "c">>)>>>>),
         OrderedMap(<<<<"gates", JNum(5)>>>>),
         OrderedMap(<<<<"gates", JList(<<OrderedMap(<<<<"gate", JStr(<<"A", "T", "_", "D", "E", "L", "I", "V", "E", "R", "Y">>)>>, <<"actionOwner", JStr(<<"T", "E", "S", "L", "A">>)>>, <<"actionTime", JNull>>, <<"isBlocker", JBool(TRUE)>>>>)>>)>>>>),
         OrderedMap(<<<<"gates", JList(<<OrderedMap(<<<<"gate", JStr(<<"A", "T", "_", "D", "E", "L", "I", "V", "E", "R", "Y">>)>>, <<"actionOwner", JStr(<<"T", "E", "S", "L", "A">>)>>, <<"actionTime", JStr(<<>>)>>, <<"isBlocker", JBool(TRUE)>>>>)>>)>>>>),
         OrderedMap(<<<<"gates", JList(<<OrderedMap(<<<<"gate", JStr(<<"A", "T", "_", "D", "E", "L", "I", "V", "E", "R", "Y">>)>>, <<"actionOwner", JStr(<<"T", "E", "S", "L", "A">>)>>, <<"actionTime", JStr(<<"s", "o", "o", "n">>)>>, <<"isBlocker", JBool(TRUE)>>>>)>>)>>>>),
         OrderedMap(<<<<"gates", JList(<<OrderedMap(<<<<"gate", JStr(<<"A", "T", "_", "D", "E", "L", "I", "V", "E", "R", "Y">>)>>, <<"actionOwner", JStr(<<"T", "E", "S", "L", "A">>)>>, <<"actionTime", JStr(<<"0", "1", " ", "M", "a", "r", " ", "2", "0", "2", "4", " ", "1", "0", ":", "2", "0">>)>>, <<"isBlocker", JBool(TRUE)>>>>)>>)>>>>),
         OrderedMap(<<<<"gates", JList(<<OrderedMap(<<<<"gate", JStr(<<"A", "T", "_", "D", "E", "L", "I", "V", "E", "R", "Y">>)>>, <<"actionOwner", JStr(<<"T", "E", "S", "L", "A">>)>>, <<"actionTime", JNum(0)>>, <<"isBlocker", JBool(TRUE)>>>>)>>)>>>>),
         OrderedMap(<<<<"gates", JList(<<OrderedMap(<<<<"gate", JStr(<<"A", "T", "_", "D", "E", "L", "I", "V", "E", "R", "Y">>)>>, <<"actionOwner", JStr(<<"T", "E", "S", "L", "A">>)>>, <<"actionTime", JStr(<<"p", "r", "i", "o", "r", "_", "t", "o", "_", "a", "p", "p", "o", "i", "n", "t", "m", "e", "n", "t">>)>>, <<"isBlocker", JBool(TRUE)>>>>)>>)>>>>),
         OrderedMap(<<<<"gates", JList(<<OrderedMap(<<<<"gate", JStr(<<"A", "T", "_", "D", "E", "L", "I", "V", "E", "R", "Y">>)>>, <<"actionOwner", JStr(<<"T", "E", "S", "L", "A">>)>>, <<"actionTime", JStr(<<"T", "B", "D">>)>>, <<"isBlocker", JBool(TRUE)>>>>)>>)>>>>),
         OrderedMap(<<<<"gates", JList(<<OrderedMap(<<<<"gate", JStr(<<"A", "T", "_", "D", "E", "L", "I", "V", "E", "R", "Y">>)>>, <<"actionOwner", JStr(<<"T", "E", "S", "L", "A">>)>>, <<"actionTime", JStr(<<"n", "e", "x", "t", "_", "w", "e", "e", "k">>)>>, <<"isBlocker", JBool(TRUE)>>>>)>>)>>>>),
         OrderedMap(<<<<"gates", JList(<<OrderedMap(<<<<"gate", JStr(<<"A", "T", "_", "D", "E", "L", "I", "V", "E", "R", "Y">>)>>, <<"actionOwner", JStr(<<"T", "E", "S", "L", "A">>)>>, <<"actionTime", JStr(<<"2", "0", "2", "4", "-", "0", "3", "-", "0", "1">>)>>, <<"isBlocker", JBool(TRUE)>>>>)>>)>>>>),
         OrderedMap(<<<<"gates", JList(<<OrderedMap(<<<<"gate", JStr(<<"A", "T", "_", "D", "E", "L", "I", "V", "E", "R", "Y">>)>>, <<"actionOwner", JStr(<<"T", "E", "S", "L", "A">>)>>, <<"actionTime", JNum(12)>>, <<"isBlocker", JBool(TRUE)>>>>)>>)>>>>),
         OrderedMap(<<<<"gates", JList(<<JStr(<<"x">>), JNum(5), JNull, OrderedMap(<<<<"gate", JStr(<<"B", "E", "F", "O", "R", "E", "_", "D", "E", "L", "I", "V", "E", "R", "Y">>)>>, <<"actionOwner", JStr(<<"T", "E", "S", "L", "A">>)>>, <<"actionTime", JStr(<<"B", "E", "F", "O", "R", "E", "_", "D", "E", "L", "I", "V", "E", "R", "Y">>)>>, <<"isBlocker", JBool(TRUE)>>>>)>>)>>>>),
         OrderedMap(<<<<"gates", JList(<<OrderedMap(<<<<"isBlocker", JBool(TRUE)>>>>)>>)>>>>),
         OrderedMap(<<<<"gates", JList(<<OrderedMap(<<<<"gate", JNull>>, <<"actionOwner", JStr(<<>>)>>, <<"isBlocker", JNum(1)>>>>)>>)>>>>),
         OrderedMap(<<<<"gates", JList(<<OrderedMap(<<<<"gate", JStr(<<"A", "T", "_", "D", "E", "L", "I", "V", "E", "R", "Y">>)>>, <<"isBlocker", JStr(<<"f", "a", "l", "s", "e">>)>>>>), OrderedMap(<<<<"gate", JStr(<<"A", "T", "_", "D", "E", "L", "I", "V", "E", "R", "Y">>)>>, <<"isBlocker", JNum(0)>>>>), OrderedMap(<<<<"gate", JStr(<<"A", "F", "T", "E", "R", "_", "D", "E", "L", "I", "V", "E", "R", "Y">>)>>>>)>>)>>>>),
         OrderedMap(<<<<"gates", OrderedMap(<<<<"only", OrderedMap(<<<<"gate", JStr(<<"A", "T", "_", "D", "E", "L", "I", "V", "E", "R", "Y">>)>>, <<"actionOwner", JStr(<<"T", "E", "S", "L", "A">>)>>, <<"actionTime", JStr(<<"A", "F", "T", "E", "R", "_", "D", "E", "L", "I", "V", "E", "R", "Y">>)>>, <<"isBlocker", JBool(FALSE)>>>>)>>>>)>>>>)}]

InitPanels ==
    /\ order_entry = EmptyMap
    /\ today \in TodayValues
    /\ progress = NotRun
    /\ insights = NotRun
    /\ unpacked = NotRun
    /\ calls = <<>>
    /\ subject \in PanelSubjects
    /\ outcome = <<>>
    /\ NoWeb
    /\ NoVisits

\* describe_market_options(order.get("mktOptions"))
DescribeMarketOptions ==
    /\ subject.fn = "mktOptions"
    /\ \A i \in DOMAIN outcome : outcome[i].fn # "describe_market_options"
    /\ outcome' = Append(outcome, [fn |-> "describe_market_options",
                                   value |-> describe_market_options(subject.value)])
    /\ UNCHANGED <<webVars, metricsVars, order_entry, today, progress, insights, unpacked, calls, subject>>

\* _split_option_codes(order.get("mktOptions")), as _lookup_trim_label
\* calls it
SplitOptionCodes ==
    /\ subject.fn = "mktOptions"
    /\ \A i \in DOMAIN outcome : outcome[i].fn # "_split_option_codes"
    /\ outcome' = Append(outcome, [fn |-> "_split_option_codes",
                                   value |-> _split_option_codes(subject.value)])
    /\ UNCHANGED <<webVars, metricsVars, order_entry, today, progress, insights, unpacked, calls, subject>>

\* _extract_delivery_blockers(readiness)
ExtractDeliveryBlockers ==
    /\ subject.fn = "readiness"
    /\ outcome = <<>>
    /\ outcome' = <<_extract_delivery_blockers(subject.value)>>
    /\ UNCHANGED <<webVars, metricsVars, order_entry, today, progress, insights, unpacked, calls, subject>>

NextPanels ==
    \/ DescribeMarketOptions
    \/ SplitOptionCodes
    \/ ExtractDeliveryBlockers

SpecPanels == InitPanels /\ [][NextPanels]_vars

\* ------------------------------------------------------------------------
\* Tokens: TeslaOrderMonitor.ensure_authenticated and the token headers
\* ------------------------------------------------------------------------
TOKEN_HEADER == "x-tesla-bundle"
CLEAR_HEADER == "x-tesla-clear"

\* an access token that is a JWT whose payload holds `exp`; any other
\* value has no payload to decode
Jwt(name, exp) == [t |-> "str", s |-> name, exp |-> exp]

\* is_token_valid: jwt_decoded["exp"] > time.time(); whatever cannot be
\* decoded is caught and gives False
is_token_valid(access_token, now) ==
    "exp" \in DOMAIN access_token /\ access_token.exp > now

\* what ensure_authenticated hands back, with the number of refresh_tokens
\* calls it made; (None, None) is <<JNull, JNull>>
AuthResult(access_token, token_bundle, refreshes) ==
    [raised |-> FALSE, access_token |-> access_token, token_bundle |-> token_bundle,
     refreshes |-> refreshes]

\* the try block of ensure_authenticated: refresh_tokens raised, or
\* token_response["access_token"] raised (KeyError on a dict without the
\* key, TypeError on any other JSON value): (None, None); else the new
\* token and the bundle after token_bundle.update(token_response)
RefreshedTokens(token_bundle, token_response) ==
    IF token_response.raised
           \/ token_response.value.t # "map"
           \/ "access_token" \notin DOMAIN token_response.value.m
    THEN AuthResult(JNull, JNull, 1)
    ELSE AuthResult(
             token_response.value.m["access_token"],
             JMap([k \in DOMAIN token_bundle.m \cup DOMAIN token_response.value.m |->
                      IF k \in DOMAIN token_response.value.m
                      THEN token_response.value.m[k] ELSE token_bundle.m[k]]),
             1)

\* ensure_authenticated(token_bundle), at time `now`, `token_response`
\* being what refresh_tokens does if it is called
ensure_authenticated(token_bundle, now, token_response) ==
    IF ~Truthy(token_bundle) THEN AuthResult(JNull, JNull, 0)
    ELSE IF ~HasGet(token_bundle) THEN Raises("AttributeError")
    ELSE IF ~Truthy(Get(token_bundle, "access_token"))
                \/ ~Truthy(Get(token_bundle, "refresh_token"))
    THEN AuthResult(JNull, JNull, 0)
    ELSE IF is_token_valid(Get(token_bundle, "access_token"), now)
    THEN AuthResult(Get(token_bundle, "access_token"), token_bundle, 0)
    ELSE RefreshedTokens(token_bundle, token_response)

\* _encode_token_bundle: base64 of the JSON text of the bundle
_encode_token_bundle(bundle) == [kind |-> "b64json", json |-> bundle]

\* _decode_token_bundle: None for no header, for an empty one and for one
\* that is not base64 of JSON text
_decode_token_bundle(value) ==
    IF value.kind = "b64json" THEN value.json ELSE JNull

\* a response as the handlers build it
Response(status, location) ==
    [raised |-> FALSE, status |-> status, location |-> location, headers |-> <<>>]

\* _finalize_response with `elif token_bundle` read as `if token_bundle`
_finalize_response_ClearKeepsBundle(response_, token_bundle, clear) ==
    LET cached == ("Cache-Control" :> "no-store") @@ response_.headers
        cleared == IF clear THEN (CLEAR_HEADER :> "1") @@ cached ELSE cached
    IN [response_ EXCEPT !.headers =
           IF Truthy(token_bundle)
           THEN (TOKEN_HEADER :> _encode_token_bundle(token_bundle)) @@ cleared
           ELSE cleared]

\* _finalize_response(response, token_bundle, clear=clear)
_finalize_response(response_, token_bundle, clear) ==
    LET cached == ("Cache-Control" :> "no-store") @@ response_.headers
    IN [response_ EXCEPT !.headers =
           IF clear THEN (CLEAR_HEADER :> "1") @@ cached
           ELSE IF Truthy(token_bundle)
           THEN (TOKEN_HEADER :> _encode_token_bundle(token_bundle)) @@ cached
           ELSE cached]

\* _redirect_to_login(clear)
_redirect_to_login(clear) == _finalize_response(Response(303, "/login"), JNull, clear)

\* _ensure_request_tokens(request): ensure_authenticated is not called for
\* a bundle that is not true
_ensure_request_tokens(request_) ==
    IF ~Truthy(_decode_token_bundle(request_.header)) THEN AuthResult(JNull, JNull, 0)
    ELSE ensure_authenticated(_decode_token_bundle(request_.header), request_.now,
                              request_.token_response)

\* the upstream calls of a handler that authenticated with `tokens`
UpstreamCalls(tokens, then) ==
    (IF ~tokens.raised /\ tokens.refreshes = 1 THEN <<"refresh_tokens">> ELSE <<>>) \o then

\* the rest of dashboard once the tokens are known
DashboardWith(request_, tokens) ==
    IF tokens.raised THEN [response |-> tokens, upstream |-> <<>>]
    ELSE IF ~Truthy(tokens.access_token) \/ ~Truthy(tokens.token_bundle)
    THEN [response |-> _redirect_to_login(TRUE), upstream |-> UpstreamCalls(tokens, <<>>)]
    ELSE [response |->
              CASE request_.orders = "fetch raises" ->
                       _finalize_response(Response(500, ""), tokens.token_bundle, FALSE)
                [] request_.orders = "format raises" -> Raises("Exception")
                [] OTHER -> _finalize_response(Response(200, ""), tokens.token_bundle, FALSE),
          upstream |-> UpstreamCalls(tokens, <<"retrieve_orders">>)]

\* dashboard(request): GET /
dashboard(request_) == DashboardWith(request_, _ensure_request_tokens(request_))

\* the rest of refresh_redirect once the tokens are known
RefreshRedirectWith(tokens) ==
    IF tokens.raised THEN [response |-> tokens, upstream |-> <<>>]
    ELSE [response |->
              IF ~Truthy(tokens.access_token) \/ ~Truthy(tokens.token_bundle)
              THEN _redirect_to_login(TRUE)
              ELSE _finalize_response(Response(303, "/?refreshed=1"),
                                      tokens.token_bundle, FALSE),
          upstream |-> UpstreamCalls(tokens, <<>>)]

\* refresh_redirect(request): GET /refresh
refresh_redirect(request_) == RefreshRedirectWith(_ensure_request_tokens(request_))


\* ------------------------------------------------------------------------
\* GET / and GET /refresh, ensure_authenticated and _finalize_response
\* ------------------------------------------------------------------------
\* time.time() while a request is served
Now == 50

AccessValid == Jwt(<<"A", "1">>, 100)
AccessExpired == Jwt(<<"A", "0">>, 10)
\* exp equal to the clock: no longer valid
AccessExpiring == Jwt(<<"A", "9">>, Now)
AccessRefreshed == Jwt(<<"A", "2">>, 200)
Refresh1 == JStr(<<"R", "1">>)
Refresh2 == JStr(<<"R", "2">>)

\* what the x-tesla-bundle header of a request decodes to
TokenBundles ==
    {JNull, EmptyMap, JList(<<JNum(1)>>), JStr(<<"a", "b", "c">>), JNum(5),
     Obj(<<<<"access_token", AccessValid>>, <<"refresh_token", Refresh1>>>>),
     Obj(<<<<"access_token", AccessExpired>>, <<"refresh_token", Refresh1>>>>),
     Obj(<<<<"access_token", AccessExpiring>>, <<"refresh_token", Refresh1>>>>),
     Obj(<<<<"access_token", AccessExpired>>, <<"refresh_token", Refresh1>>,
           <<"id_token", JStr(<<"I", "1">>)>>>>),
     Obj(<<<<"access_token", JStr(<<"o", "p", "a", "q", "u", "e">>)>>, <<"refresh_token", Refresh1>>>>),
     Obj(<<<<"access_token", JNum(5)>>, <<"refresh_token", Refresh1>>>>),
     Obj(<<<<"access_token", AccessValid>>>>),
     Obj(<<<<"access_token", AccessValid>>, <<"refresh_token", JStr(<<>>)>>>>),
     Obj(<<<<"refresh_token", Refresh1>>>>)}

\* the header: not sent, sent empty, not base64 of JSON text, or a bundle
TokenHeaders ==
    {[kind |-> "none"], [kind |-> "empty"], [kind |-> "garbage"]}
        \cup {_encode_token_bundle(bundle) : bundle \in TokenBundles}

\* what refresh_tokens does when called: raise_for_status or json() raises,
\* or the JSON body of the token endpoint is returned
TokenResponses ==
    {Raises("HTTPError"),
     Returns(Obj(<<<<"access_token", AccessRefreshed>>, <<"refresh_token", Refresh2>>,
                   <<"expires_in", JNum(28800)>>>>)),
     Returns(Obj(<<<<"access_token", AccessRefreshed>>>>)),
     Returns(EmptyMap),
     Returns(Obj(<<<<"access_token", JNull>>, <<"refresh_token", Refresh2>>>>)),
     Returns(Obj(<<<<"access_token", JStr(<<>>)>>>>)),
     Returns(JList(<<>>))}

\* the requests: the path, the header, the clock, and what the upstream
\* calls do once made
Requests ==
    {[path |-> path, header |-> header, now |-> Now, token_response |-> token_response,
      orders |-> orders] :
        path \in {"/", "/refresh"}, header \in TokenHeaders,
        token_response \in TokenResponses, orders \in {"ok", "fetch raises", "format raises"}}

\* the response objects handed to _finalize_response: a fresh one, and one
\* that already carries a Cache-Control header
FreshResponses ==
    {Response(200, ""), [Response(200, "") EXCEPT !.headers = ("Cache-Control" :> "public")]}

InitWeb ==
    /\ order_entry = EmptyMap
    /\ today \in TodayValues
    /\ progress = NotRun
    /\ insights = NotRun
    /\ unpacked = NotRun
    /\ calls = <<>>
    /\ subject = NoSubject
    /\ outcome = <<>>
    /\ request \in Requests
    /\ response = NotRun
    /\ upstream = <<>>
    /\ auth = NotRun
    /\ NoVisits

\* GET /
Dashboard ==
    /\ request.path = "/"
    /\ response = NotRun
    /\ response' = dashboard(request).response
    /\ upstream' = dashboard(request).upstream
    /\ UNCHANGED <<request, auth, metricsVars, derivationVars>>

\* GET /refresh
RefreshRedirect ==
    /\ request.path = "/refresh"
    /\ response = NotRun
    /\ response' = refresh_redirect(request).response
    /\ upstream' = refresh_redirect(request).upstream
    /\ UNCHANGED <<request, auth, metricsVars, derivationVars>>

\* monitor.ensure_authenticated(token_bundle) on what the header holds
EnsureAuthenticated ==
    /\ auth = NotRun
    /\ auth' = ensure_authenticated(_decode_token_bundle(request.header), request.now,
                                    request.token_response)
    /\ UNCHANGED <<request, response, upstream, metricsVars, derivationVars>>

\* _finalize_response(response, token_bundle, clear=clear)
FinalizeResponse ==
    /\ outcome = <<>>
    /\ \E fresh \in FreshResponses, clear \in BOOLEAN :
          outcome' = <<[fn |-> "_finalize_response",
                        response |-> fresh,
                        token_bundle |-> _decode_token_bundle(request.header),
                        clear |-> clear,
                        value |-> _finalize_response(
                                      fresh, _decode_token_bundle(request.header), clear)]>>
    /\ UNCHANGED <<webVars, metricsVars, order_entry, today, progress, insights, unpacked, calls, subject>>

NextWeb ==
    \/ Dashboard
    \/ RefreshRedirect
    \/ EnsureAuthenticated
    \/ FinalizeResponse

SpecWeb == InitWeb /\ [][NextWeb]_vars

\* ------------------------------------------------------------------------
\* VisitMetrics (src/app/metrics.py): record and force_log run by threads
\* ------------------------------------------------------------------------
\* the number of concurrent record calls
MaxRecordCalls == 2
\* log_every and log_interval of the VisitMetrics object
LogEvery == 2
LogInterval == 300
\* the paths handed to record, and the readings of time.time()
RecordPaths == {"/", "/refresh", ""}
Timestamps == {1000, 1400}

RecordCalls == 1..MaxRecordCalls
\* the thread that runs force_log
Flusher == 0

\* record and force_log without the lock
LockFree_NoLock(lock) == TRUE

\* threading.Lock: acquire goes through only while no thread holds it
LockFree(lock) == lock = <<>>

\* _should_log(timestamp)
_should_log(metrics, timestamp) ==
    \/ metrics._total % LogEvery = 0
    \/ timestamp - metrics._last_log >= LogInterval

\* _snapshot_locked()
_snapshot_locked(metrics) == [total |-> metrics._total, per_path |-> metrics._per_path]

\* record(path): the path is named, the clock is read
RecordStart(th) ==
    /\ threads[th].pc = "start"
    /\ \E path \in RecordPaths, timestamp \in Timestamps :
          threads' = [threads EXCEPT ![th] =
                         [@ EXCEPT !.pc = "acquire",
                                   !.path = IF path = "" THEN "<unknown>" ELSE path,
                                   !.timestamp = timestamp]]
    /\ UNCHANGED <<visit_metrics, log, webVars, derivationVars>>

\* with self._lock: entered by a record call or by force_log
Acquire(th) ==
    /\ threads[th].pc = "acquire"
    /\ LockFree(visit_metrics._lock)
    /\ visit_metrics' = [visit_metrics EXCEPT !._lock = <<th>>]
    /\ threads' = [threads EXCEPT ![th].pc = IF th = Flusher THEN "snapshot" ELSE "load_total"]
    /\ UNCHANGED <<log, webVars, derivationVars>>

\* self._total += 1: the value is read ...
LoadTotal(th) ==
    /\ threads[th].pc = "load_total"
    /\ threads' = [threads EXCEPT ![th] =
                      [@ EXCEPT !.pc = "store_total", !.loaded = visit_metrics._total]]
    /\ UNCHANGED <<visit_metrics, log, webVars, derivationVars>>

\* ... and written back one higher
StoreTotal(th) ==
    /\ threads[th].pc = "store_total"
    /\ visit_metrics' = [visit_metrics EXCEPT !._total = threads[th].loaded + 1]
    /\ threads' = [threads EXCEPT ![th].pc = "load_path"]
    /\ UNCHANGED <<log, webVars, derivationVars>>

\* self._per_path[path] += 1: read ...
LoadPerPath(th) ==
    /\ threads[th].pc = "load_path"
    /\ threads' = [threads EXCEPT ![th] =
                      [@ EXCEPT !.pc = "store_path",
                                !.loaded = visit_metrics._per_path[threads[th].path]]]
    /\ UNCHANGED <<visit_metrics, log, webVars, derivationVars>>

\* ... and written back
StorePerPath(th) ==
    /\ threads[th].pc = "store_path"
    /\ visit_metrics' = [visit_metrics EXCEPT
                            !._per_path[threads[th].path] = threads[th].loaded + 1]
    /\ threads' = [threads EXCEPT ![th].pc = "decide"]
    /\ UNCHANGED <<log, webVars, derivationVars>>

\* should_log, the snapshot and _last_log
Decide(th) ==
    /\ threads[th].pc = "decide"
    /\ LET should_log == _should_log(visit_metrics, threads[th].timestamp)
       IN /\ threads' = [threads EXCEPT ![th] =
                            [@ EXCEPT !.pc = "release",
                                      !.snapshot = IF should_log
                                                   THEN <<_snapshot_locked(visit_metrics)>>
                                                   ELSE <<>>]]
          /\ visit_metrics' = IF should_log
                              THEN [visit_metrics EXCEPT !._last_log = threads[th].timestamp]
                              ELSE visit_metrics
    /\ UNCHANGED <<log, webVars, derivationVars>>

\* force_log: the snapshot taken under the lock
ForceSnapshot(th) ==
    /\ threads[th].pc = "snapshot"
    /\ threads' = [threads EXCEPT ![th] =
                      [@ EXCEPT !.pc = "release",
                                !.snapshot = <<_snapshot_locked(visit_metrics)>>]]
    /\ UNCHANGED <<visit_metrics, log, webVars, derivationVars>>

\* the end of the with block
Release(th) ==
    /\ threads[th].pc = "release"
    /\ visit_metrics' = [visit_metrics EXCEPT !._lock = <<>>]
    /\ threads' = [threads EXCEPT ![th].pc = IF threads[th].snapshot = <<>> THEN "done" ELSE "log"]
    /\ UNCHANGED <<log, webVars, derivationVars>>

\* logger.info(...) of the snapshot, outside the lock
LogSnapshot(th) ==
    /\ threads[th].pc = "log"
    /\ log' = Append(log, [by |-> th, snapshot |-> threads[th].snapshot[1]])
    /\ threads' = [threads EXCEPT ![th].pc = "done"]
    /\ UNCHANGED <<visit_metrics, webVars, derivationVars>>

InitMetrics ==
    /\ order_entry = EmptyMap
    /\ today \in TodayValues
    /\ progress = NotRun
    /\ insights = NotRun
    /\ unpacked = NotRun
    /\ calls = <<>>
    /\ subject = NoSubject
    /\ outcome = <<>>
    /\ NoWeb
    /\ visit_metrics = NewVisitMetrics
    /\ threads = [th \in RecordCalls \cup {Flusher} |->
                     [pc |-> IF th = Flusher THEN "acquire" ELSE "start",
                      path |-> "", timestamp |-> 0, loaded |-> 0, snapshot |-> <<>>]]
    /\ log = <<>>

NextMetrics ==
    \E th \in RecordCalls \cup {Flusher} :
        \/ RecordStart(th)
        \/ Acquire(th)
        \/ LoadTotal(th)
        \/ StoreTotal(th)
        \/ LoadPerPath(th)
        \/ StorePerPath(th)
        \/ Decide(th)
        \/ ForceSnapshot(th)
        \/ Release(th)
        \/ LogSnapshot(th)

SpecMetrics == InitMetrics /\ [][NextMetrics]_vars

\* ------------------------------------------------------------------------
\* Repeated calls while the UTC date moves on
\* ------------------------------------------------------------------------
\* at most this many calls of build_order_progress for one envelope
MaxCalls == 2
\* at most this many midnights pass
MaxMidnights == 2

\* the date after d
NextDate(d) ==
    IF d.d < DaysInMonth(d.y, d.mo) THEN [d EXCEPT !.d = d.d + 1]
    ELSE IF d.mo < 12 THEN [d EXCEPT !.mo = d.mo + 1, !.d = 1]
    ELSE [y |-> d.y + 1, mo |-> 1, d |-> 1]

\* days from the first of TodayValues to d, up to MaxMidnights
RECURSIVE DaysSince(_, _)
DaysSince(from, d) ==
    IF from = d THEN 0 ELSE 1 + DaysSince(NextDate(from), d)

\* envelopes whose ETA lies around the dates of the run
ClockFacts ==
    [placed : PlacedValues, vin : VinValues, odometer : {JStr(<<"1", "2", ",", "3", "4", "5", " ", "m", "i">>)},
     eta : {Absent, JStr(<<"2", "0", "2", "4", "-", "0", "3", "-", "1", "1">>),
         JStr(<<"2", "0", "2", "4", "-", "0", "3", "-", "1", "0", "T", "0", "8", ":", "0", "0", ":", "0", "0", "Z">>),
         JStr(<<"2", "0", "2", "4", "-", "0", "3", "-", "1", "2", "T", "0", "0", ":", "3", "0", "+", "0", "2", ":", "0", "0">>)}, status : {JStr(<<"S", "U", "B", "M", "I", "T", "T", "E", "D">>)},
     appointment : {Absent}, orderStatus : OrderStatusValues,
     unit : {Absent}, plate : {Absent}]

\* a stateful variant: the output remembers how many calls came before
NthCall_CountsCalls(order_entry_, today_, earlier) ==
    [build_order_progress(order_entry_, today_) EXCEPT !.total = 7 + Len(earlier)]

\* the n-th call of build_order_progress: it is given the envelope, reads
\* the clock, and keeps nothing from the earlier calls
NthCall(order_entry_, today_, earlier) ==
    build_order_progress(order_entry_, today_)

InitClock ==
    /\ \E f \in ClockFacts : order_entry = Envelope(f, {}, JNull)
    /\ today \in TodayValues
    /\ progress = NotRun
    /\ insights = NotRun
    /\ unpacked = NotRun
    /\ calls = <<>>
    /\ subject = NoSubject
    /\ outcome = <<>>
    /\ NoWeb
    /\ NoVisits

\* one more call of build_order_progress(order_data) on the same envelope
CallBuildOrderProgress ==
    /\ Len(calls) < MaxCalls
    /\ calls' = Append(calls, [today |-> today,
                               out |-> NthCall(order_entry, today, calls)])
    /\ UNCHANGED <<webVars, metricsVars, order_entry, today, progress, insights, unpacked, subject, outcome>>

\* the UTC date changes between two calls
UtcMidnight ==
    /\ \E first \in TodayValues : DaysSince(first, today) < MaxMidnights
    /\ today' = NextDate(today)
    /\ UNCHANGED <<webVars, metricsVars, order_entry, progress, insights, unpacked, calls, subject, outcome>>

NextClock ==
    \/ CallBuildOrderProgress
    \/ UtcMidnight

SpecClock == InitClock /\ [][NextClock]_vars

\* ------------------------------------------------------------------------
\* Properties of build_order_progress
\* ------------------------------------------------------------------------
\* build_order_progress was called and returned
Returned == progress.run /\ ~progress.raised

\* 1-based positions of the stages that are not completed
IncompleteStages == {i \in DOMAIN progress.stages : ~progress.stages[i].completed}
AllComplete == IncompleteStages = {}
FirstIncompleteStage == CHOOSE i \in IncompleteStages : \A j \in IncompleteStages : i <= j
ActiveStages == {i \in DOMAIN progress.stages : progress.stages[i].state = "active"}
StageAt(key) == progress.stages[CHOOSE i \in DOMAIN progress.stages :
                                    progress.stages[i].key = key]

\* C1 as claimed: active_index is the smallest index of an incomplete stage,
\* and total (7) when all seven stages are completed.
C1_ActiveIndexIsTotalWhenAllComplete ==
    Returned =>
        IF AllComplete
        THEN progress.active_index = progress.total
        ELSE progress.active_index = FirstIncompleteStage - 1

\* C1 amended: active_index is the smallest index of an incomplete stage,
\* and total - 1 (6, the index of the last stage) when all seven stages are
\* completed.
C1_ActiveIndexFirstIncompleteOrLast ==
    Returned =>
        IF AllComplete
        THEN progress.active_index = 6
        ELSE progress.active_index = FirstIncompleteStage - 1

C1_Witness ==
    /\ Returned
    /\ \A i \in DOMAIN progress.stages : progress.stages[i].completed
    /\ progress.active_index = 6

\* C2 as claimed: unless all seven stages are completed or all seven are
\* incomplete, exactly one stage is active.
C2_ExactlyOneActiveUnlessAllOrNone ==
    (Returned /\ ~AllComplete /\ Cardinality(IncompleteStages) # 7)
        => Cardinality(ActiveStages) = 1

\* the first incomplete stage is in_transit and no ETA was found
TransitBlocksActive ==
    /\ ~AllComplete
    /\ progress.stages[FirstIncompleteStage].key = "in_transit"
    /\ ~progress.stages[FirstIncompleteStage].has_eta

\* C2 amended: exactly one stage is active, the first incomplete one, unless
\* all seven stages are completed or the first incomplete stage is in_transit
\* with no ETA found; in these two cases no stage is active.
C2_ExactlyOneActiveUnlessTransitWithoutEta ==
    Returned =>
        IF AllComplete \/ TransitBlocksActive
        THEN ActiveStages = {}
        ELSE ActiveStages = {FirstIncompleteStage}

C2_Witness ==
    /\ Returned
    /\ TransitBlocksActive
    /\ Cardinality(IncompleteStages) < 7
    /\ ActiveStages = {}

\* the appointment the envelope carries (None when it has none)
AppointmentOf(e) ==
    Get(Get(Get(Get(e, "details"), "tasks"), "scheduling"), "apptDateTimeAddressStr")
PriorFiveComplete == \A i \in 1..5 : progress.stages[i].completed

\* C3 as claimed: ready is completed only when the appointment parses as a
\* real date-time and the five preceding stages are all completed.
C3_ReadyNeedsPrerequisites ==
    (Returned /\ StageAt("ready").completed)
        => (AppointmentOf(order_entry) \in ValidAppointments /\ PriorFiveComplete)

\* C3 amended: ready is completed if and only if the appointment value
\* parses as a real date-time, whether or not the five preceding stages are
\* completed.
C3_ReadyIffAppointmentParses ==
    Returned =>
        (StageAt("ready").completed <=> AppointmentOf(order_entry) \in ValidAppointments)

C3_Witness ==
    /\ Returned
    /\ AppointmentOf(order_entry) \in ValidAppointments
    /\ ~PriorFiveComplete
    /\ StageAt("ready").completed

\* C4: the in_transit stage is never active when has_eta is false; when it
\* is incomplete and has no ETA its state is upcoming.
C4_TransitNeverActiveWithoutEta ==
    (Returned /\ ~StageAt("in_transit").has_eta)
        => /\ StageAt("in_transit").state # "active"
           /\ ~StageAt("in_transit").completed
                  => StageAt("in_transit").state = "upcoming"

C4_Witness ==
    /\ Returned
    /\ ~AllComplete
    /\ progress.stages[FirstIncompleteStage].key = "in_transit"
    /\ ~StageAt("in_transit").has_eta
    /\ StageAt("in_transit").state = "upcoming"

\* C5: a stage has state complete if and only if its completed flag is
\* true, wherever it lies.
C5_CompleteIffCompleted ==
    Returned =>
        \A i \in DOMAIN progress.stages :
            progress.stages[i].state = "complete" <=> progress.stages[i].completed

C5_Witness ==
    /\ Returned
    /\ \E i \in DOMAIN progress.stages :
           /\ ~AllComplete
           /\ i > FirstIncompleteStage
           /\ progress.stages[i].completed
           /\ progress.stages[i].state = "complete"

\* C6: active_index lies in 0..total-1.
C6_ActiveIndexInRange ==
    Returned => progress.active_index \in 0..(progress.total - 1)

C6_Witness ==
    /\ Returned
    /\ progress.percent = 100
    /\ progress.active_index = progress.total - 1

\* round(100 * c / 7) for c = 0..7
RoundedPercentOfSeven == <<0, 14, 29, 43, 57, 71, 86, 100>>

\* C7: completed counts the stages whose completed flag is true, total is 7
\* and percent is round(100 * completed / total), within 0..100.
C7_CompletedTotalPercent ==
    Returned =>
        /\ progress.completed =
               Cardinality({i \in DOMAIN progress.stages : progress.stages[i].completed})
        /\ progress.total = 7
        /\ progress.percent = RoundedPercentOfSeven[progress.completed + 1]
        /\ progress.percent \in 0..100

C7_Witness ==
    /\ Returned
    /\ progress.completed = 2
    /\ progress.percent = 29

\* C8: the stages list has exactly the seven keys, in the fixed order.
C8_SevenStagesInFixedOrder ==
    Returned =>
        [i \in DOMAIN progress.stages |-> progress.stages[i].key] =
            <<"order_placed", "vin_assigned", "production", "in_transit",
              "registration", "ready", "delivered">>

C8_Witness ==
    /\ Returned
    /\ Len(progress.stages) = 7
    /\ progress.stages[6].completed
    /\ ~progress.stages[3].completed

\* C9: build_order_progress and build_order_insights return and never raise.
C9_NeverRaises ==
    /\ progress.run => ~progress.raised
    /\ insights.run => ~insights.raised

\* the eight keys of the unpacked record
UnpackedKeys == {"order", "details", "tasks", "scheduling", "registration",
                 "final_payment", "final_payment_data", "delivery_details"}

\* C10: unpack_order_data returns without raising a record of the eight
\* keys, each bound to a mapping.
C10_UnpackedAlwaysMappings ==
    unpacked.run =>
        /\ ~unpacked.raised
        /\ DOMAIN unpacked.value = UnpackedKeys
        /\ \A k \in UnpackedKeys : unpacked.value[k].t = "map"


SentinelScenarios ==
    {f \in Facts :
        /\ f.placed # Absent
        /\ f.vin # Absent
        /\ f.odometer = JStr(<<"3", "0", " ", "m", "i">>)
        /\ f.eta = Absent
        /\ f.status = JStr(<<"S", "U", "B", "M", "I", "T", "T", "E", "D">>)
        /\ f.appointment = Absent
        /\ ~Contains(Upper(f.orderStatus.s), DELIVERED)}

InSentinelScenario ==
    /\ Returned
    /\ \E f \in SentinelScenarios : order_entry = Envelope(f, {}, JNull)

\* C12: for an order with an order-placed date, a VIN, odometer "30 mi", no
\* ETA, registration status SUBMITTED and no appointment (and no delivered
\* order status), order_placed, vin_assigned and registration are completed,
\* production is not, in_transit is upcoming, ready and delivered are not
\* completed, and active_index is 2, the index of production.
C12_SentinelScenarioStopsAtProduction ==
    InSentinelScenario =>
        /\ StageAt("order_placed").completed
        /\ StageAt("vin_assigned").completed
        /\ StageAt("registration").completed
        /\ ~StageAt("production").completed
        /\ StageAt("in_transit").state = "upcoming"
        /\ ~StageAt("ready").completed
        /\ ~StageAt("delivered").completed
        /\ progress.active_index = 2
        /\ progress.stages[progress.active_index + 1].key = "production"

C12_Witness ==
    /\ InSentinelScenario
    /\ StageAt("production").state = "active"
    /\ progress.completed = 3

\* ------------------------------------------------------------------------
\* Properties of the stage rules
\* ------------------------------------------------------------------------
RegistrationTaskOf(e) == Get(Get(Get(e, "details"), "tasks"), "registration")
OdometerOf(e) == Get(Get(RegistrationTaskOf(e), "orderDetails"), "vehicleOdometer")
EtaOf(e) ==
    Get(Get(Get(Get(Get(e, "details"), "tasks"), "finalPayment"), "data"),
        "etaToDeliveryCenter")
PlateOf(e) == Get(RegistrationTaskOf(e), "reggieLicensePlate")

\* C13: production is completed if and only if an odometer value is present
\* that parses to a number n with |n - 30| > epsilon, for every n (zero and
\* negative included), given as a number or as text.
C13_ProductionIffOdometerDiffers ==
    Returned =>
        (StageAt("production").completed <=>
            /\ parse_numeric(OdometerOf(order_entry)).ok
            /\ DiffersFromSentinel(parse_numeric(OdometerOf(order_entry))))

\* the ETA of the envelope read as a date
EtaDate == fromisoformat(ReplaceTrailingZ(Strip(PyStr(EtaOf(order_entry)))))
EtaPresent == Truthy(EtaOf(order_entry))
\* "ETA: DD Mon YYYY"
EtaLabel ==
    JStr(<<"E", "T", "A", ":", " ">> \o NatDigits(EtaDate.d, 2) \o <<" ">>
             \o MonthNames[EtaDate.mo] \o <<" ">> \o NatDigits(EtaDate.y, 4))

\* C14: in_transit is completed if and only if an ETA is present, parses as
\* a date, and that date is on or before the current UTC date; a present ETA
\* in the future leaves the stage incomplete with has_eta true and
\* timestamp and meta value "ETA: <date>"; an absent ETA gives has_eta false
\* and no timestamp.
C14_TransitIffEtaOnOrBeforeToday ==
    Returned =>
        /\ StageAt("in_transit").completed <=>
               (EtaPresent /\ EtaDate.ok /\ DateLeq(EtaDate, today))
        /\ (EtaPresent /\ EtaDate.ok /\ ~DateLeq(EtaDate, today)) =>
               /\ ~StageAt("in_transit").completed
               /\ StageAt("in_transit").has_eta
               /\ StageAt("in_transit").timestamp = EtaLabel
               /\ StageAt("in_transit").meta_value = EtaLabel
        /\ ~EtaPresent =>
               /\ ~StageAt("in_transit").has_eta
               /\ StageAt("in_transit").timestamp = JNull

C14_Witness ==
    /\ Returned
    /\ EtaPresent /\ EtaDate.ok /\ ~DateLeq(EtaDate, today)
    /\ StageAt("in_transit").has_eta
    /\ ~StageAt("in_transit").completed

\* the words of a status: its maximal runs of letters and digits, in upper
\* case, joined by "_"
RECURSIVE JoinUnderscore(_)
JoinUnderscore(words) ==
    IF words = <<>> THEN <<>>
    ELSE IF Len(words) = 1 THEN words[1]
    ELSE words[1] \o <<"_">> \o JoinUnderscore(Tail(words))
WordsToken(v) ==
    IF v \in {Absent, JNull, JStr(<<>>)} THEN <<>>
    ELSE JoinUnderscore(Split([i \in DOMAIN PyStr(v) |->
             IF IsUpperAlnum(UpperChar(PyStr(v)[i])) THEN UpperChar(PyStr(v)[i])
             ELSE " "]))
CompletionTokens == {<<"C", "O", "M", "P", "L", "E", "T", "E", "D">>, <<"C", "O", "M", "P", "L", "E", "T", "E">>, <<"A", "P", "P", "R", "O", "V", "E", "D">>, <<"S", "U", "B", "M", "I", "T", "T", "E", "D">>}

\* C15: the normalized token of a registration status depends only on its
\* letters and digits, whatever their case and whatever runs of other
\* characters separate them; normalizing a token again gives the same token;
\* and the registration stage is completed if and only if the token is one
\* of COMPLETED, COMPLETE, APPROVED, SUBMITTED.
C15_StatusTokenIgnoresCaseAndPunctuation ==
    /\ Len(outcome) >= 1 =>
           outcome[1] = Returns(IF WordsToken(subject.value) = <<>> THEN JNull
                                ELSE JStr(WordsToken(subject.value)))
    /\ Len(outcome) = 2 => outcome[2] = outcome[1]
    /\ Returned =>
           (StageAt("registration").completed <=>
                WordsToken(subject.value) \in CompletionTokens)

C15_Witness ==
    /\ Returned
    /\ Len(outcome) = 2
    /\ subject.value = JStr(<<"s", "u", "b", "m", "i", "t", "t", "e", "d">>)
    /\ outcome[2].value = JStr(<<"S", "U", "B", "M", "I", "T", "T", "E", "D">>)
    /\ StageAt("registration").completed

\* C16: with no licence plate, the status label of the registration stage is
\* looked up through the normalized token: it is the dictionary label
\* whenever the token is a known code.
C16_LabelLookedUpByToken ==
    (/\ Returned
     /\ ~Truthy(PlateOf(order_entry))
     /\ \E e \in REGISTRATION_STATUS_DESCRIPTIONS : e[1] = WordsToken(subject.value)) =>
        StageAt("registration").meta_value =
            JStr(LabelOfKey(WordsToken(subject.value), REGISTRATION_STATUS_DESCRIPTIONS))

\* ------------------------------------------------------------------------
\* Properties of the formatting helpers
\* ------------------------------------------------------------------------
\* C17: formatting a string that _format_vehicle_mileage produced, with the
\* same unit, returns the same string.
C17_MileageIdempotentOnOwnOutput ==
    (subject.fn = "_format_vehicle_mileage" /\ Len(outcome) = 2) =>
        outcome[2] = outcome[1]

\* every day/month pair of the window text, in reading order
PairsFound ==
    IF IsNoneOrEmpty(subject.value) THEN <<>>
    ELSE WindowMatches(JoinSpace(Split(PyStr(subject.value))), 1, <<>>, 99)
Shortened == subject.fn = "_shorten_delivery_window_display" /\ Len(outcome) = 1
DayMonth(pair) ==
    <<DigitChars[(pair[2] \div 10) + 1], DigitChars[(pair[2] % 10) + 1], " ">> \o pair[1]

\* C18: _shorten_delivery_window_display never raises, and returns None for
\* every text in which fewer than two day/month pairs are found.
C18_NoneBelowTwoPairs ==
    Shortened =>
        /\ ~outcome[1].raised
        /\ Len(PairsFound) < 2 => outcome[1].value = JNull

C18_Witness ==
    /\ Shortened
    /\ Len(PairsFound) = 1
    /\ outcome[1].value = JNull

\* C19 as claimed: two distinct pairs give "DD Mon - DD Mon"; exactly one
\* pair, or two that resolve identically, give the single "DD Mon"; None is
\* returned only when no pair is found.
C19_SingleEndpointForOnePair ==
    Shortened =>
        /\ Len(PairsFound) = 0 <=> outcome[1].value = JNull
        /\ Len(PairsFound) = 1 => outcome[1].value = JStr(DayMonth(PairsFound[1]))
        /\ Len(PairsFound) >= 2 =>
               outcome[1].value =
                   IF PairsFound[1] = PairsFound[2]
                   THEN JStr(DayMonth(PairsFound[1]))
                   ELSE JStr(DayMonth(PairsFound[1]) \o <<" ", "-", " ">>
                                 \o DayMonth(PairsFound[2]))

\* C19: the first two day/month pairs found are rendered as
\* "DD Mon - DD Mon" when they differ and as the single "DD Mon" when they
\* resolve identically; None is returned when fewer than two pairs are
\* found, one pair included.
C19_RangeOfFirstTwoPairs ==
    Shortened =>
        /\ Len(PairsFound) < 2 <=> outcome[1].value = JNull
        /\ Len(PairsFound) >= 2 =>
               outcome[1].value =
                   IF PairsFound[1] = PairsFound[2]
                   THEN JStr(DayMonth(PairsFound[1]))
                   ELSE JStr(DayMonth(PairsFound[1]) \o <<" ", "-", " ">>
                                 \o DayMonth(PairsFound[2]))

C19_Witness ==
    /\ Shortened
    /\ Len(PairsFound) >= 2
    /\ PairsFound[1] = PairsFound[2]
    /\ outcome[1].value = JStr(DayMonth(PairsFound[1]))

\* the value of the subject read as an ISO date-time, a trailing Z as +00:00
SubjectDateTime == fromisoformat(ReplaceTrailingZ(PyStr(subject.value)))
IsTwoDigits(s, i) == IsDigit(s[i]) /\ IsDigit(s[i + 1])
\* "DD Mon YYYY HH:MM" of the date-time dt
LooksFormatted(s, dt) ==
    /\ Len(s) = 17
    /\ IsTwoDigits(s, 1) /\ DigitsValue(SubSeq(s, 1, 2)) = dt.d
    /\ s[3] = " " /\ SubSeq(s, 4, 6) = MonthNames[dt.mo]
    /\ s[7] = " " /\ AllDigits(SubSeq(s, 8, 11))
    /\ DigitsValue(SubSeq(s, 8, 11)) = dt.y
    /\ s[12] = " " /\ IsTwoDigits(s, 13) /\ DigitsValue(SubSeq(s, 13, 14)) = dt.h
    /\ s[15] = ":" /\ IsTwoDigits(s, 16) /\ DigitsValue(SubSeq(s, 16, 17)) = dt.mi

\* C20: _format_timestamp never raises; an empty or missing value gives
\* None, a value that parses as an ISO-8601 date-time (a trailing Z read as
\* +00:00) gives "DD Mon YYYY HH:MM", and every other value comes back as
\* its own text, unchanged.
C20_TimestampFallsBackToText ==
    (subject.fn = "_format_timestamp" /\ Len(outcome) = 1) =>
        /\ ~outcome[1].raised
        /\ ~Truthy(subject.value) => outcome[1].value = JNull
        /\ (Truthy(subject.value) /\ SubjectDateTime.ok) =>
               /\ outcome[1].value.t = "str"
               /\ LooksFormatted(outcome[1].value.s, SubjectDateTime)
        /\ (Truthy(subject.value) /\ ~SubjectDateTime.ok) =>
               outcome[1].value = JStr(PyStr(subject.value))

C20_Witness ==
    /\ subject.fn = "_format_timestamp"
    /\ Len(outcome) = 1
    /\ subject.value = JStr(<<"n", "o", "t", "-", "a", "-", "d", "a", "t", "e">>)
    /\ outcome[1].value = subject.value

\* ------------------------------------------------------------------------
\* The option panel and the blocker list
\* ------------------------------------------------------------------------
\* the recorded result of `fn` for the option blob under study
Ran(fn) ==
    subject.fn = "mktOptions" /\ \E i \in DOMAIN outcome : outcome[i].fn = fn
ResultOf(fn) == outcome[CHOOSE i \in DOMAIN outcome : outcome[i].fn = fn].value

\* a candidate code with its leading '$' removed
WithoutDollar(code) ==
    IF code # <<>> /\ code[1] = "$" THEN Tail(code) ELSE code

\* C21: the options panel is the one built from the candidates of the blob
\* upper-cased and with their leading '$' removed, so that '$mdl3' and
\* 'MDL3' resolve to the same catalog entry, for every shape of the blob
C21_DollarPrefixStrippedBeforeLookup ==
    Ran("describe_market_options") =>
        LET codes == OptionCodesOf(subject.value)
        IN ResultOf("describe_market_options")
               = ItemsOfCodes([i \in DOMAIN codes |-> WithoutDollar(codes[i])])

\* the k-th smallest member of a set of indices
KthOf(S, k) == CHOOSE i \in S : Cardinality({j \in S : j < i}) = k - 1

\* <<label, description>> of the first hint rule matching `code`, else
\* Option with `description`
FirstRuleOr(code, description) ==
    LET hits == {i \in DOMAIN OPTION_HINT_RULES : HintRuleMatches(OPTION_HINT_RULES[i], code)}
    IN IF hits = {} THEN <<<<"O", "p", "t", "i", "o", "n">>, description>>
       ELSE <<OPTION_HINT_RULES[KthOf(hits, 1)].label,
              OPTION_HINT_RULES[KthOf(hits, 1)].description>>

\* the entries of the catalog codes of `category` among `codes`, each
\* once, in the order of their first occurrence
EntriesOf(codes, category) ==
    LET first == {i \in DOMAIN codes :
                     /\ InCatalog(codes[i])
                     /\ CatalogEntry(codes[i]).category = category
                     /\ \A j \in 1..(i - 1) : codes[j] # codes[i]}
    IN [k \in 1..Cardinality(first) |-> CatalogEntry(codes[KthOf(first, k)]).entry]

\* `items` is the panel of `codes`: the categories of the catalog codes in
\* ascending order, then the distinct unknown codes in ascending order,
\* a blank unknown code described by `blank`
PanelOf(items, codes, blank) ==
    LET known == {codes[i] : i \in {j \in DOMAIN codes : InCatalog(codes[j])}}
        categories == {CatalogEntry(c).category : c \in known}
        unknown == {codes[i] : i \in {j \in DOMAIN codes : ~InCatalog(codes[j])}}
        n == Cardinality(categories)
    IN /\ Len(items) = n + Cardinality(unknown)
       /\ \A i \in 1..n : \E c \in categories :
             /\ items[i].label = c \o <<" ", "O", "p", "t", "i", "o", "n", "s">>
             /\ items[i].value = Join(EntriesOf(codes, c), <<",", " ">>)
       /\ \A i \in 1..n : \A j \in (i + 1)..n :
             items[i].label # items[j].label /\ TextLeq(items[i].label, items[j].label)
       /\ \A i \in (n + 1)..Len(items) : \E u \in unknown :
             LET hint == FirstRuleOr(u, IF u = <<>> THEN blank ELSE <<"C", "u", "s", "t", "o", "m", " ", "c", "o", "n", "f", "i", "g", "u", "r", "a", "t", "i", "o", "n">>)
             IN /\ items[i] = [label |-> hint[1], value |-> hint[2] \o <<" ", "(">> \o u \o <<")">>]
                /\ Cardinality({v \in unknown : v # u /\ TextLeq(v, u)}) = i - n - 1

\* C22: one '<category> Options' item per category of known codes, the
\* categories in alphabetical order, each value the comma-joined entries
\* without duplicates in first-occurrence order, then one item per distinct
\* unknown code in sorted order, labelled by the first matching hint rule
\* or 'Option / Custom configuration'
C22_GroupedThenUnknownCustom ==
    Ran("describe_market_options") =>
        PanelOf(ResultOf("describe_market_options"), OptionCodesOf(subject.value),
                <<"C", "u", "s", "t", "o", "m", " ", "c", "o", "n", "f", "i", "g", "u", "r", "a", "t", "i", "o", "n">>)

\* C22, amended: the same, with a blank code (a whitespace-only list item
\* or an empty mapping value) labelled 'Option / Unrecognized option'
C22_GroupedThenUnknownBlankUnrecognized ==
    Ran("describe_market_options") =>
        PanelOf(ResultOf("describe_market_options"), OptionCodesOf(subject.value),
                <<"U", "n", "r", "e", "c", "o", "g", "n", "i", "z", "e", "d", " ", "o", "p", "t", "i", "o", "n">>)

\* the scenario blob gives Battery, Paint and Vehicle items and one
\* fallback item for ZZZ99
C22_Witness ==
    /\ Ran("describe_market_options")
    /\ subject.value = JStr(<<"M", "D", "L", "3", ",", "B", "T", "3", "7", ",", "P", "P", "S", "W", ",", "Z", "Z", "Z", "9", "9">>)
    /\ LET items == ResultOf("describe_market_options")
       IN /\ Len(items) = 4
          /\ items[1].label = <<"B", "a", "t", "t", "e", "r", "y", " ", "O", "p", "t", "i", "o", "n", "s">>
          /\ items[2].label = <<"P", "a", "i", "n", "t", " ", "O", "p", "t", "i", "o", "n", "s">>
          /\ items[3].label = <<"V", "e", "h", "i", "c", "l", "e", " ", "O", "p", "t", "i", "o", "n", "s">>
          /\ items[4] = [label |-> <<"O", "p", "t", "i", "o", "n">>,
                         value |-> <<"C", "u", "s", "t", "o", "m", " ", "c", "o", "n", "f", "i", "g", "u", "r", "a", "t", "i", "o", "n", " ", "(", "Z", "Z", "Z", "9", "9", ")">>]

\* the gate entries of the readiness under study, in iteration order
GateEntries ==
    LET gates == Get(subject.value, "gates")
    IN IF gates.t = "map" THEN DictValues(gates) ELSE gates.l
GatesGiven ==
    /\ subject.fn = "readiness"
    /\ outcome # <<>>
    /\ Get(subject.value, "gates").t \in {"list", "map"}
Flagged ==
    {i \in DOMAIN GateEntries :
        GateEntries[i].t = "map" /\ Truthy(Get(GateEntries[i], "isBlocker"))}

\* the timing label of a known timing code, else the formatted timestamp
\* of a value that parses as one, else `otherwise`
TimingOrTimestampOr(value, otherwise) ==
    LET key == Upper(PyStr(value))
        dt == fromisoformat(ReplaceTrailingZ(PyStr(value)))
    IN IF \E e \in DELIVERY_TIMING_DESCRIPTIONS : e[1] = key
       THEN JStr((CHOOSE e \in DELIVERY_TIMING_DESCRIPTIONS : e[1] = key)[2])
       ELSE IF dt.ok THEN JStr(strftime(dt))
       ELSE otherwise

\* one record per flagged gate entry, in input order, and no other
OneRecordPerBlocker ==
    /\ ~outcome[1].raised
    /\ Len(outcome[1].value) = Cardinality(Flagged)
    /\ \A k \in DOMAIN outcome[1].value :
          LET gate == GateEntries[KthOf(Flagged, k)]
          IN /\ DOMAIN outcome[1].value[k] = {"gate", "owner", "action_time"}
             /\ outcome[1].value[k].gate = BlockerOf(gate).gate
             /\ outcome[1].value[k].owner = BlockerOf(gate).owner

\* C23: one {gate, owner, action_time} record per gate entry flagged
\* isBlocker, in input order, and none for any other entry; action_time is
\* the timing label of a known timing code, else the formatted timestamp
\* when the value parses as one, else the raw value unchanged
C23_ActionTimeRawAsLastResort ==
    GatesGiven =>
        /\ OneRecordPerBlocker
        /\ \A k \in DOMAIN outcome[1].value :
              LET value == Get(GateEntries[KthOf(Flagged, k)], "actionTime")
              IN outcome[1].value[k].action_time = TimingOrTimestampOr(value, value)

\* the code read as words in title case: str(value).upper(), underscores
\* turned into spaces, each word capitalised
Humanized(value) ==
    LET key == Upper(PyStr(value))
    IN JStr(Title([i \in DOMAIN key |-> IF key[i] = "_" THEN " " ELSE key[i]]))

\* C23, amended: the same records; action_time is 'N/A' for an absent or
\* empty value, else the timing label of a known timing code, else the
\* formatted timestamp when the value parses as one, else the value in
\* title case when it is true, else str(value)
C23_ActionTimeHumanizedBeforeRaw ==
    GatesGiven =>
        /\ OneRecordPerBlocker
        /\ \A k \in DOMAIN outcome[1].value :
              LET value == Get(GateEntries[KthOf(Flagged, k)], "actionTime")
              IN outcome[1].value[k].action_time
                     = IF IsNoneOrEmpty(value) THEN JStr(<<"N", "/", "A">>)
                       ELSE TimingOrTimestampOr(
                                value,
                                IF Truthy(value) THEN Humanized(value)
                                ELSE JStr(PyStr(value)))

\* gates given as a mapping with a blocker, a non-blocker and a blocker
\* whose action time is a timestamp: two records, in input order
C23_Witness ==
    /\ GatesGiven
    /\ Get(subject.value, "gates").t = "map"
    /\ Cardinality(Flagged) = 2
    /\ Len(GateEntries) = 3
    /\ outcome[1].value[1].action_time = JStr(<<"B", "e", "f", "o", "r", "e", " ", "d", "e", "l", "i", "v", "e", "r", "y">>)
    /\ outcome[1].value[2].action_time = JStr(<<"0", "1", " ", "M", "a", "r", " ", "2", "0", "2", "4", " ", "1", "0", ":", "2", "0">>)

\* a delimited option string: codes separated by commas, semicolons, pipes
\* or whitespace, each with or without a '$' prefix
DelimitedOptionString(blob) ==
    /\ blob.t = "str"
    /\ \A i \in DOMAIN blob.s :
          \/ IsDigit(blob.s[i])
          \/ IsLetter(blob.s[i])
          \/ blob.s[i] \in {",", ";", "|", "$"} \cup Whitespace

\* C30: for a delimited option string, _split_option_codes derives the
\* sequence of codes describe_market_options derives
C30_TokenizersAgree ==
    (Ran("_split_option_codes") /\ DelimitedOptionString(subject.value)) =>
        ResultOf("_split_option_codes") = OptionCodesOf(subject.value)

\* ------------------------------------------------------------------------
\* Missing data, and the place of the active stage
\* ------------------------------------------------------------------------
\* the mappings build_order_progress reads, a missing or null one read as {}
OrderOf(e) == Or(GetD(e, "order", EmptyMap), EmptyMap)
DetailsOf(e) == Or(GetD(e, "details", EmptyMap), EmptyMap)
TasksOf(e) == Or(GetD(DetailsOf(e), "tasks", EmptyMap), EmptyMap)

\* the envelope holds no task
NoTasks == DetailsOf(order_entry).t = "map" /\ TasksOf(order_entry) = EmptyMap

\* the stages fed by the tasks alone, and those the order or the details
\* can feed as well (odometer, ETA)
TaskStages == {"registration", "ready"}
TaskOrOrderStages == {"production", "in_transit"}
OrderFeedsStages ==
    \/ Truthy(Get(OrderOf(order_entry), "vehicleOdometer"))
    \/ Truthy(Get(DetailsOf(order_entry), "vehicleOdometer"))
    \/ Truthy(Get(OrderOf(order_entry), "eta"))

\* C24: absence of data is no error: with no tasks build_order_progress
\* returns with every task-derived stage incomplete, and for the empty
\* envelope all seven stages are incomplete, completed = 0, percent = 0,
\* active_index = 0 and order_placed is the active stage
C24_AbsenceIsNotAnError ==
    /\ (progress.run /\ NoTasks /\ OrderOf(order_entry).t = "map") =>
           /\ Returned
           /\ \A key \in TaskStages : ~StageAt(key).completed
           /\ ~OrderFeedsStages => \A key \in TaskOrOrderStages : ~StageAt(key).completed
    /\ (progress.run /\ order_entry = EmptyMap) =>
           /\ Returned
           /\ IncompleteStages = 1..7
           /\ progress.completed = 0
           /\ progress.percent = 0
           /\ progress.active_index = 0
           /\ ActiveStages = {1}
           /\ progress.stages[1].key = "order_placed"

\* progress derived from the empty envelope
C24_Witness ==
    /\ Returned
    /\ order_entry = EmptyMap
    /\ progress.stages[1].state = "active"

\* C26: at most one stage is active, and an active stage is the first
\* incomplete one: every stage before it is 'complete' and every
\* incomplete stage after it is 'upcoming'
C26_ActiveIsFirstIncomplete ==
    Returned =>
        /\ Cardinality(ActiveStages) <= 1
        /\ \A a \in ActiveStages :
              /\ a = FirstIncompleteStage
              /\ \A i \in 1..(a - 1) : progress.stages[i].state = "complete"
              /\ \A i \in (a + 1)..Len(progress.stages) :
                    ~progress.stages[i].completed
                        => progress.stages[i].state = "upcoming"

\* an active stage with completed stages before it, and both an incomplete
\* and a completed stage after it
C26_Witness ==
    /\ Returned
    /\ \E a \in ActiveStages :
          /\ a > 1
          /\ \E i \in (a + 1)..7 : ~progress.stages[i].completed
          /\ \E i \in (a + 1)..7 : progress.stages[i].completed

\* ------------------------------------------------------------------------
\* Tokens, the guarded handlers and the response headers
\* ------------------------------------------------------------------------
\* the bundle the request carries, and what ensure_authenticated makes of it
BundleOfRequest == _decode_token_bundle(request.header)
AuthOfRequest == ensure_authenticated(BundleOfRequest, request.now, request.token_response)

\* (None, None)
NoneNone(result) == result.access_token = JNull /\ result.token_bundle = JNull

\* both members present, the token being the one the bundle holds
BothPresent(result) ==
    /\ Truthy(result.access_token)
    /\ Truthy(result.token_bundle)
    /\ HasGet(result.token_bundle)
    /\ Get(result.token_bundle, "access_token") = result.access_token

\* the refresh failed: refresh_tokens raised, or its answer holds no
\* access_token entry
RefreshFails ==
    \/ request.token_response.raised
    \/ ~HasGet(request.token_response.value)
    \/ "access_token" \notin DOMAIN request.token_response.value.m

\* the bundle holds both tokens
HoldsBothTokens(bundle) ==
    /\ HasGet(bundle)
    /\ Truthy(Get(bundle, "access_token"))
    /\ Truthy(Get(bundle, "refresh_token"))

\* C25: ensure_authenticated returns (None, None) or a pair with both
\* members present and access_token = bundle['access_token']; a bundle
\* missing a token gives (None, None); a valid token is returned without a
\* refresh; an expired one is refreshed exactly once, and then the new
\* token is returned and merged, or (None, None) if the refresh fails
C25_NoneNoneOrBothPresent ==
    auth # NotRun =>
        /\ ~auth.raised
        /\ NoneNone(auth) \/ BothPresent(auth)
        /\ ~HoldsBothTokens(BundleOfRequest) => NoneNone(auth) /\ auth.refreshes = 0
        /\ HoldsBothTokens(BundleOfRequest) =>
              IF is_token_valid(Get(BundleOfRequest, "access_token"), request.now)
              THEN /\ auth.refreshes = 0
                   /\ auth.access_token = Get(BundleOfRequest, "access_token")
                   /\ auth.token_bundle = BundleOfRequest
              ELSE /\ auth.refreshes = 1
                   /\ IF RefreshFails THEN NoneNone(auth)
                      ELSE /\ auth.access_token
                                 = Get(request.token_response.value, "access_token")
                           /\ \A k \in DOMAIN request.token_response.value.m :
                                 Get(auth.token_bundle, k)
                                     = Get(request.token_response.value, k)
                           /\ \A k \in DOMAIN BundleOfRequest.m
                                       \ DOMAIN request.token_response.value.m :
                                 Get(auth.token_bundle, k) = Get(BundleOfRequest, k)

\* the handler of the request has answered
Handled == response # NotRun

\* ensure_authenticated was called and returned both members
Authenticated ==
    /\ Truthy(BundleOfRequest)
    /\ ~AuthOfRequest.raised
    /\ Truthy(AuthOfRequest.access_token)
    /\ Truthy(AuthOfRequest.token_bundle)

OrdersFetched == \E i \in DOMAIN upstream : upstream[i] = "retrieve_orders"
RefreshedRedirect ==
    ~response.raised /\ response.status = 303 /\ response.location = "/?refreshed=1"
LoginRedirectWithClear ==
    /\ ~response.raised
    /\ response.status = 303
    /\ response.location = "/login"
    /\ CLEAR_HEADER \in DOMAIN response.headers
    /\ TOKEN_HEADER \notin DOMAIN response.headers

\* C27: on GET / and GET /refresh the orders are fetched, or the refreshed
\* redirect is issued, only after ensure_authenticated returned both an
\* access token and a bundle; on every other path the response is a 303
\* redirect to /login with the clear header and without the token header,
\* and no upstream order call is made
C27_GuardedOrLoginRedirect ==
    Handled =>
        /\ (OrdersFetched \/ RefreshedRedirect) => Authenticated
        /\ ~Authenticated => LoginRedirectWithClear /\ ~OrdersFetched

\* the direct calls of _finalize_response
Finalized == {i \in DOMAIN outcome : outcome[i].fn = "_finalize_response"}

NoStore(headers) ==
    "Cache-Control" \in DOMAIN headers /\ headers["Cache-Control"] = "no-store"
BothHeaders(headers) == CLEAR_HEADER \in DOMAIN headers /\ TOKEN_HEADER \in DOMAIN headers

\* C28: a response passed through _finalize_response carries
\* Cache-Control: no-store and never both the clear header and the token
\* header: with clear the bundle is not emitted even if one is supplied,
\* without clear the token header is set exactly when the bundle is
\* non-empty
C28_NoStoreAndNeverBothHeaders ==
    /\ \A i \in Finalized :
          LET headers == outcome[i].value.headers
          IN /\ NoStore(headers)
             /\ ~BothHeaders(headers)
             /\ outcome[i].clear =>
                    /\ CLEAR_HEADER \in DOMAIN headers
                    /\ TOKEN_HEADER \notin DOMAIN headers
             /\ ~outcome[i].clear =>
                    /\ CLEAR_HEADER \notin DOMAIN headers
                    /\ TOKEN_HEADER \in DOMAIN headers <=> Truthy(outcome[i].token_bundle)
                    /\ TOKEN_HEADER \in DOMAIN headers =>
                           _decode_token_bundle(headers[TOKEN_HEADER])
                               = outcome[i].token_bundle
    /\ (Handled /\ ~response.raised) =>
           NoStore(response.headers) /\ ~BothHeaders(response.headers)

\* _finalize_response called with clear=True and a bundle, on a response
\* that carried another Cache-Control
C28_Witness ==
    \E i \in Finalized :
        /\ outcome[i].clear
        /\ HoldsBothTokens(outcome[i].token_bundle)
        /\ "Cache-Control" \in DOMAIN outcome[i].response.headers
        /\ outcome[i].value.headers = ("Cache-Control" :> "no-store") @@ (CLEAR_HEADER :> "1")

\* ------------------------------------------------------------------------
\* VisitMetrics under concurrent record and force_log
\* ------------------------------------------------------------------------
\* a thread is between acquiring and releasing the lock
InsideLock(th) ==
    threads[th].pc \in {"load_total", "store_total", "load_path", "store_path",
                        "decide", "snapshot", "release"}
\* the record calls that left the critical section
Counted == {th \in RecordCalls : threads[th].pc \in {"log", "done"}}
\* the record calls that returned
Finished == {th \in RecordCalls : threads[th].pc = "done"}

\* the sum of the per-path counts
RECURSIVE SumOver(_, _)
SumOver(per_path, paths) ==
    IF paths = {} THEN 0
    ELSE LET p == CHOOSE q \in paths : TRUE
         IN per_path[p] + SumOver(per_path, paths \ {p})
SumPerPath(per_path) == SumOver(per_path, DOMAIN per_path)

\* C29: under any interleaving of record calls and force_log no visit is
\* lost and every snapshot is consistent: once n record calls have
\* finished and none is under way the total is n and equals the sum of the
\* per-path counts; every logged snapshot has its total equal to the sum
\* of its per-path counts; no two record calls log the same total
C29_NoVisitLostSnapshotsConsistent ==
    /\ (\A th \in RecordCalls : ~InsideLock(th)) =>
           /\ visit_metrics._total = Cardinality(Counted)
           /\ visit_metrics._total = SumPerPath(visit_metrics._per_path)
    /\ (\A th \in RecordCalls : th \in Finished) =>
           visit_metrics._total = Cardinality(RecordCalls)
    /\ \A i \in DOMAIN log : log[i].snapshot.total = SumPerPath(log[i].snapshot.per_path)
    /\ \A i, j \in DOMAIN log :
           (i # j /\ log[i].by \in RecordCalls /\ log[j].by \in RecordCalls)
               => log[i].snapshot.total # log[j].snapshot.total

\* every record call has returned, two of them logged, and force_log
\* logged a snapshot taken between two visits
C29_Witness ==
    /\ Finished = RecordCalls
    /\ Cardinality(RecordCalls) >= 2
    /\ visit_metrics._total = Cardinality(RecordCalls)
    /\ \E i, j \in DOMAIN log : log[i].by \in RecordCalls /\ log[j].by \in RecordCalls /\ i # j
    /\ \E i \in DOMAIN log : log[i].by = Flusher /\ log[i].snapshot.total = 1

============================================================================
